---- MODULE Spec2Model ----
(***************************************************************************)
(* State-machine model of the MobileCLI daemon (cli/src/daemon.rs): the   *)
(* connection dispatcher, the mobile-client handler, the PTY-session      *)
(* handler and the reference counts that drive PTY resizing and directory *)
(* watches.  One action is one critical section of the daemon-state lock  *)
(* or one socket/channel operation between two await points.             *)
(***************************************************************************)
EXTENDS Integers, Sequences, FiniteSets, TLC

(* ------------------------------------------------------------------ *)
(* Identities and input alphabets                                      *)
(* ------------------------------------------------------------------ *)

\* Remote (non-loopback) and loopback socket addresses.
Remotes == {"m1", "m2"}
Loopbacks == {"lo1", "lo2"}
Addrs == Remotes \cup Loopbacks

\* addr.ip().is_loopback()
is_loopback(a) == a \in Loopbacks

SessionIds == {"S1", "S2"}

\* Request paths of WatchDirectory / UnwatchDirectory; "/r/p/" is a second
\* spelling of the directory "/r/p".
ReqPaths == {"/r/p", "/r/p/", "/r/q"}

\* Bytes the wrapper can emit.
Bytes == {"a", "b"}

\* Frames a peer sends in the steady state, per connection.
MaxReq == 3
\* pty_output / binary frames a wrapper sends, per connection.
MaxChunks == 2
\* Model-sized stand-in for the broadcast channel capacity (256 frames).
BroadcastCap == 1
\* Model-sized stand-in for DEFAULT_SCROLLBACK_MAX_BYTES (64 KiB).
ScrollbackMax == 2
\* Longest pty_output chunk, in bytes.
MaxChunkLen == 2
\* Model-sized stand-in for BURST_SIZE of the per-peer token bucket.
RateBurst == 1
\* Filesystem requests of one peer, how many of them it sends before any
\* time passes, and the number of times the clock advances.
MaxFs == 54
BurstPrefix == 48
MaxTicks == 3
\* Calls of the path validator in one run.
MaxOps == 2

\* normalized_chunk.trim().chars().count() >= 10 clears a waiting state.
ClearThreshold == 10

VARIABLES
    pc,                        \* position of each connection's task
    first,                     \* first frame read by handle_connection
    loc,                       \* local variables of each task
    sock,                      \* frames written to each connection's socket
    sessions,                  \* DaemonState.sessions
    mobile_clients,            \* DaemonState.mobile_clients (its keys)
    push_tokens,               \* DaemonState.push_tokens
    mobile_views,              \* DaemonState.mobile_views
    session_view_counts,       \* DaemonState.session_view_counts
    file_watch_subscriptions,  \* DaemonState.file_watch_subscriptions
    file_watch_counts,         \* DaemonState.file_watch_counts
    file_rate_limiters,        \* DaemonState.file_rate_limiters (whole tokens)
    watchers,                  \* FileWatcher.watchers (its keys)
    client_q,                  \* per-peer outbound queue (client_tx -> client_rx)
    hub,                       \* every (session_id, bytes) sent on pty_broadcast
    pty_pos,                   \* per-peer cursor into hub (pty_rx)
    input_q,                   \* per-wrapper input channel (input_tx -> input_rx)
    resize_q,                  \* per-wrapper resize channel (resize_tx -> resize_rx)
    persisted,                 \* sessions.json as last written
    disk,                      \* the host's file tree: absolute path -> node
    config,                    \* FileSystemConfig of the daemon
    search,                    \* the search_files call in progress, if any
    fwd,                       \* FileWatcher.event_tx and each peer's watch forwarder
    rlock,                     \* tasks holding the state lock's read side across an await
    obs                        \* observations of the run (history, read by no action)

connVars == <<pc, first, loc, sock>>
regVars == <<sessions, mobile_clients, push_tokens>>
viewVars == <<mobile_views, session_view_counts>>
watchVars == <<file_watch_subscriptions, file_watch_counts, file_rate_limiters, watchers>>
chanVars == <<client_q, hub, pty_pos, input_q, resize_q>>
diskVars == <<disk, config, search, fwd>>
vars == <<connVars, regVars, viewVars, watchVars, chanVars, persisted, diskVars, rlock, obs>>

(* ------------------------------------------------------------------ *)
(* Maps with a changing key set (HashMap)                              *)
(* ------------------------------------------------------------------ *)

EmptyMap == [x \in {} |-> 0]
Get(m, k, d) == IF k \in DOMAIN m THEN m[k] ELSE d
Put(m, k, v) == [x \in DOMAIN m \cup {k} |-> IF x = k THEN v ELSE m[x]]
Del(m, k) == [x \in DOMAIN m \ {k} |-> m[x]]

(* ------------------------------------------------------------------ *)
(* The host's file tree and the filesystem configuration               *)
(* ------------------------------------------------------------------ *)

\* A path is the sequence of its components (Path::components): "/" is the
\* root directory component and ".." a parent-directory component.
Root == <<"/">>
HomeDir == <<"/", "home">>
RealDir == <<"/", "home", "real">>
RoDir == <<"/", "home", "ro">>
LinkPath == <<"/", "home", "link">>
EtcDir == <<"/", "etc">>

\* Nodes of the tree: a regular file with its bytes, a directory, a symlink
\* with its target.
FileNode(d) == [kind |-> "file", data |-> d, target |-> <<>>]
DirNode == [kind |-> "dir", data |-> <<>>, target |-> <<>>]
LinkNode(t) == [kind |-> "link", data |-> <<>>, target |-> t]

\* File contents are sequences of tokens: <<"hi">> and <<"old">> are plain
\* text, <<"%PDF">> is text that starts with a magic number, <<"bin">> is
\* not valid UTF-8; <<"b64">> \o w is the base64 text of w and
\* <<"lossy">> \o w the text from_utf8_lossy makes of w.
OldData == <<"old">>

\* A host tree: /home with the directories real and ro, /etc with a file,
\* optionally the symlink /home/link (to lt) and the files
\* /home/real/n.txt and /home/ro/n.txt.
HostTree(lt, has_real, has_ro) ==
    LET dirs == {Root, HomeDir, RealDir, RoDir, EtcDir}
        links == IF lt = <<>> THEN {} ELSE {LinkPath}
        files == {EtcDir \o <<"n.txt">>}
                 \cup (IF has_real THEN {RealDir \o <<"n.txt">>} ELSE {})
                 \cup (IF has_ro THEN {RoDir \o <<"n.txt">>} ELSE {})
    IN [p \in dirs \cup links \cup files |->
            IF p \in dirs THEN DirNode
            ELSE IF p \in links THEN LinkNode(lt)
            ELSE FileNode(OldData)]

\* FileSystemConfig: one allowed root, the read-only pattern "/home/ro/**"
\* and the denied pattern "**/n.key"; a pattern "d/**" is kept as the
\* directory d and a pattern "**/n" as the file name n.
FileSystemConfig(follow) ==
    [allowed_roots |-> {HomeDir},
     read_only_patterns |-> {RoDir},
     denied_patterns |-> {"n.key"},
     follow_symlinks |-> follow]

\* No search_files call is running.
NoSearch == [active |-> FALSE]

\* The paths of the live filesystem that watchers report on.
LivePaths == {"/r/p", "/r/p/f", "/r/p/d", "/r/p/d/f", "/r/q", "/r/q/f"}

\* The watcher's event channel with nothing sent and no forwarder spawned:
\* events is everything sent on event_tx and kinds the change_type of each,
\* pos each file_watch_rx's cursor into it, task each forwarder's position
\* and change its event in hand; known is known_paths, exists the paths
\* for which Path::exists holds.
NoForwarders ==
    [events |-> <<>>,
     kinds |-> <<>>,
     pos |-> [a \in Addrs |-> 0],
     task |-> [a \in Addrs |-> "none"],
     change |-> [a \in Addrs |-> ""],
     known |-> {},
     exists |-> LivePaths]

\* Option::None for a session's waiting_state and a detector result.
NoWait == [wait_type |-> "none", prompt_hash |-> 0, approval_model |-> "none"]

\* Observations: per session, the detector events and waiting-state clears in
\* the order they happened, the WaitingForInput broadcasts and pushes made,
\* the bytes ingested from pty_output frames, and whether a SendInput to the
\* waiting session is still to be answered by a WaitingCleared.
ObsInit ==
    [evlog |-> [s \in SessionIds |-> <<>>],
     nwfi |-> [s \in SessionIds |-> 0],
     npush |-> [s \in SessionIds |-> 0],
     stream |-> [s \in SessionIds |-> <<>>],
     owed |-> [s \in SessionIds |-> FALSE],
     clock |-> 0,
     ticks |-> 0,
     fs |-> <<>>,
     ops |-> <<>>,
     pre |-> <<>>,
     routed |-> <<>>]

LocInit ==
    [sid |-> "", todo |-> {}, paths |-> {}, nreq |-> 0, nout |-> 0,
     chunk |-> <<>>, text |-> <<>>, ev |-> NoWait, exit_code |-> 0,
     req |-> <<>>, buffer |-> 0]

Init ==
    /\ pc = [a \in Addrs |-> "new"]
    /\ first = [a \in Addrs |-> <<"none">>]
    /\ loc = [a \in Addrs |-> LocInit]
    /\ sock = [a \in Addrs |-> <<>>]
    /\ sessions = EmptyMap
    /\ mobile_clients = {}
    /\ push_tokens = <<>>
    /\ mobile_views = EmptyMap
    /\ session_view_counts = EmptyMap
    /\ file_watch_subscriptions = EmptyMap
    /\ file_watch_counts = EmptyMap
    /\ file_rate_limiters = EmptyMap
    /\ watchers = {}
    /\ client_q = [a \in Addrs |-> <<>>]
    /\ hub = <<>>
    /\ pty_pos = [a \in Addrs |-> 0]
    /\ input_q = [a \in Addrs |-> <<>>]
    /\ resize_q = [a \in Addrs |-> <<>>]
    /\ persisted = {}
    /\ rlock = {}
    /\ obs = ObsInit
    /\ disk = HostTree(<<>>, FALSE, FALSE)
    /\ config = FileSystemConfig(FALSE)
    /\ search = NoSearch
    /\ fwd = NoForwarders

\* The write side of the state lock is free: no task holds the read side
\* across an await (single critical sections are atomic actions).
WLockFree == rlock = {}

\* Positions at which a mobile handler's client_rx / a wrapper handler's
\* input_rx and resize_rx still exist (the task has not returned).
MobileLive ==
    {"m_welcome", "m_sessions", "m_sessions_send", "m_waiting", "m_waiting_send",
     "m_first", "m_loop", "m_getsessions", "m_getsessions_send", "m_unsub_restore",
     "m_watch_lock", "m_watch_os", "m_watch_reply", "m_unwatch_lock", "m_unwatch_os",
     "m_unwatch_reply", "m_approve", "m_approve_bcast",
     "wf_temp", "wf_backup", "wf_rename", "wf_restore", "wf_rmtemp", "wf_rmbak",
     "m_unreg", "m_cleanup", "m_unwatch", "m_restore"}
WrapperLive ==
    {"w_bcast", "w_persist", "w_ack", "w_loop", "w_scroll", "w_track", "w_wait",
     "w_wfi", "w_push", "w_clear", "w_cleared", "w_input_clear", "w_input_bcast",
     "w_unreg", "w_end_bcast", "w_end_persist"}

\* client.send(msg) for every entry of mobile_clients; a send to a queue
\* whose receiver was dropped fails and is ignored.
QueueToAll(q, msg) ==
    [a \in Addrs |->
        IF a \in mobile_clients /\ pc[a] \in MobileLive THEN Append(q[a], msg) ELSE q[a]]

\* session.resize_tx.send(size) / session.input_tx.send(bytes)
SendTo(q, s, item) ==
    IF s \in DOMAIN sessions /\ pc[sessions[s].owner] \in WrapperLive
    THEN [q EXCEPT ![sessions[s].owner] = Append(@, item)]
    ELSE q

(* ------------------------------------------------------------------ *)
(* handle_connection                                                   *)
(* ------------------------------------------------------------------ *)

\* First frames: register_pty with a session id ("" when empty or missing),
\* hello with a token that matches / mismatches / is absent, another client
\* message, text that is no ClientMessage, and anything that is not text.
FirstFrames ==
    {<<"register_pty", s>> : s \in SessionIds \cup {""}}
    \cup {<<"hello", t>> : t \in {"match", "mismatch", "absent"}}
    \cup {<<"subscribe", s>> : s \in SessionIds}
    \cup {<<"ping">>, <<"garbage">>, <<"nontext">>}

\* A dispatch that trusts the first frame alone: register_pty is routed to
\* handle_pty_session from any address.
handle_connection_any(a, frame) ==
    /\ pc[a] = "new"
    /\ first' = [first EXCEPT ![a] = frame]
    /\ pc' = [pc EXCEPT ![a] =
                IF frame[1] = "nontext" THEN "closed"
                ELSE IF frame[1] = "register_pty" THEN "w_register"
                     ELSE "m_register"]
    /\ UNCHANGED <<loc, sock, regVars, viewVars, watchVars, chanVars, persisted, diskVars, rlock, obs>>

handle_connection(a, frame) ==
    /\ pc[a] = "new"
    /\ first' = [first EXCEPT ![a] = frame]
    /\ pc' = [pc EXCEPT ![a] =
                IF frame[1] = "nontext" THEN "closed"
                ELSE IF frame[1] = "register_pty"
                     THEN (IF is_loopback(a) THEN "w_register" ELSE "closed")
                     ELSE "m_register"]
    /\ UNCHANGED <<loc, sock, regVars, viewVars, watchVars, chanVars, persisted, diskVars, rlock, obs>>

(* ------------------------------------------------------------------ *)
(* handle_mobile_client: entry sequence                                *)
(* ------------------------------------------------------------------ *)

\* mobile_clients.insert(addr, client_tx); pty_broadcast.subscribe();
\* watcher().subscribe() and the spawn of the watch forwarder.
\* The pairing-token comparison before it only logs.
MobileRegister(a) ==
    /\ pc[a] = "m_register"
    /\ WLockFree
    /\ mobile_clients' = mobile_clients \cup {a}
    /\ client_q' = [client_q EXCEPT ![a] = <<>>]
    /\ pty_pos' = [pty_pos EXCEPT ![a] = Len(hub)]
    /\ fwd' = [fwd EXCEPT !.pos[a] = Len(fwd.events), !.task[a] = "recv"]
    /\ pc' = [pc EXCEPT ![a] = "m_welcome"]
    /\ UNCHANGED <<first, loc, sock, sessions, push_tokens, viewVars, watchVars,
                   hub, input_q, resize_q, persisted, disk, config, search, rlock, obs>>

\* A welcome whose authenticated flag follows the pairing-token comparison.
SendWelcomeByToken(a, ok) ==
    /\ pc[a] = "m_welcome"
    /\ IF ok
       THEN /\ sock' = [sock EXCEPT ![a] =
                    Append(@, <<"welcome", first[a] # <<"hello", "mismatch">>>>)]
            /\ pc' = [pc EXCEPT ![a] = "m_sessions"]
       ELSE /\ pc' = [pc EXCEPT ![a] = "m_failed"]
            /\ UNCHANGED sock
    /\ UNCHANGED <<first, loc, regVars, viewVars, watchVars, chanVars, persisted, diskVars, rlock, obs>>

\* tx.send(Welcome { authenticated: true, .. }).await?
SendWelcome(a, ok) ==
    /\ pc[a] = "m_welcome"
    /\ IF ok
       THEN /\ sock' = [sock EXCEPT ![a] = Append(@, <<"welcome", TRUE>>)]
            /\ pc' = [pc EXCEPT ![a] = "m_sessions"]
       ELSE /\ pc' = [pc EXCEPT ![a] = "m_failed"]
            /\ UNCHANGED sock
    /\ UNCHANGED <<first, loc, regVars, viewVars, watchVars, chanVars, persisted, diskVars, rlock, obs>>

\* send_sessions_list, first half: state.read().await and the snapshot.  The
\* guard stays alive over the socket write that follows.
SessionsListLock(a) ==
    /\ pc[a] \in {"m_sessions", "m_getsessions"}
    /\ rlock' = rlock \cup {a}
    /\ loc' = [loc EXCEPT ![a].todo = DOMAIN sessions]
    /\ pc' = [pc EXCEPT ![a] = IF pc[a] = "m_sessions" THEN "m_sessions_send"
                                ELSE "m_getsessions_send"]
    /\ UNCHANGED <<first, sock, regVars, viewVars, watchVars, chanVars, persisted, diskVars, obs>>

\* send_sessions_list, second half: tx.send(Sessions).await? and the guard's drop.
SessionsListSend(a, ok) ==
    /\ pc[a] \in {"m_sessions_send", "m_getsessions_send"}
    /\ rlock' = rlock \ {a}
    /\ loc' = [loc EXCEPT ![a].todo = {}]
    /\ IF ok
       THEN /\ sock' = [sock EXCEPT ![a] = Append(@, <<"sessions", loc[a].todo>>)]
            /\ pc' = [pc EXCEPT ![a] = IF pc[a] = "m_sessions_send" THEN "m_waiting"
                                        ELSE "m_loop"]
       ELSE /\ pc' = [pc EXCEPT ![a] = "m_failed"]
            /\ UNCHANGED sock
    /\ UNCHANGED <<first, regVars, viewVars, watchVars, chanVars, persisted, diskVars, obs>>

WaitingSessions == {s \in DOMAIN sessions : sessions[s].waiting # NoWait}

\* send_waiting_states, first half: state.read().await; the guard is held
\* over every send of the loop.
WaitingStatesLock(a) ==
    /\ pc[a] = "m_waiting"
    /\ IF WaitingSessions = {}
       THEN /\ pc' = [pc EXCEPT ![a] = "m_first"]
            /\ UNCHANGED <<rlock, loc>>
       ELSE /\ pc' = [pc EXCEPT ![a] = "m_waiting_send"]
            /\ rlock' = rlock \cup {a}
            /\ loc' = [loc EXCEPT ![a].todo = WaitingSessions]
    /\ UNCHANGED <<first, sock, regVars, viewVars, watchVars, chanVars, persisted, diskVars, obs>>

\* send_waiting_states: one tx.send(WaitingForInput).await? of the loop over
\* sessions.values() (a HashMap: any order).
WaitingStatesSend(a, s, ok) ==
    /\ pc[a] = "m_waiting_send"
    /\ s \in loc[a].todo
    /\ IF ok
       THEN /\ sock' = [sock EXCEPT ![a] =
                    Append(@, <<"waiting_for_input", s, sessions[s].waiting.wait_type,
                                sessions[s].waiting.prompt_hash>>)]
            /\ loc' = [loc EXCEPT ![a].todo = @ \ {s}]
            /\ IF loc[a].todo = {s}
               THEN /\ pc' = [pc EXCEPT ![a] = "m_first"]
                    /\ rlock' = rlock \ {a}
               ELSE UNCHANGED <<pc, rlock>>
       ELSE /\ pc' = [pc EXCEPT ![a] = "m_failed"]
            /\ rlock' = rlock \ {a}
            /\ loc' = [loc EXCEPT ![a].todo = {}]
            /\ UNCHANGED sock
    /\ UNCHANGED <<first, regVars, viewVars, watchVars, chanVars, persisted, diskVars, obs>>

\* A client message arrives: the first frame (reprocessed after the welcome
\* sequence) or the next frame read by the select loop.
Recv(a, msg) ==
    \/ pc[a] = "m_first" /\ first[a] = msg
    \/ pc[a] = "m_loop" /\ loc[a].nreq < MaxReq

\* The handler's locals once it has taken msg.
Took(a, msg) ==
    [loc[a] EXCEPT !.nreq = IF pc[a] = "m_loop" THEN @ + 1 ELSE @, !.req = msg]

\* The first frame was Hello (only logged) or no ClientMessage (ignored).
FirstFrameSkipped(a) ==
    /\ pc[a] = "m_first"
    /\ first[a][1] \in {"hello", "garbage"}
    /\ pc' = [pc EXCEPT ![a] = "m_loop"]
    /\ UNCHANGED <<first, loc, sock, regVars, viewVars, watchVars, chanVars, persisted, diskVars, rlock, obs>>

(* ------------------------------------------------------------------ *)
(* process_client_msg: sessions, views, input and resize               *)
(* ------------------------------------------------------------------ *)

\* ClientMessage::Subscribe
Subscribe(a, s) ==
    /\ Recv(a, <<"subscribe", s>>)
    /\ WLockFree
    /\ LET entry == Get(mobile_views, a, {})
       IN /\ mobile_views' = Put(mobile_views, a, entry \cup {s})
          /\ session_view_counts' =
                IF s \notin entry
                THEN Put(session_view_counts, s, Get(session_view_counts, s, 0) + 1)
                ELSE session_view_counts
    /\ loc' = [loc EXCEPT ![a] = Took(a, <<"subscribe", s>>)]
    /\ pc' = [pc EXCEPT ![a] = "m_loop"]
    /\ UNCHANGED <<first, sock, regVars, watchVars, chanVars, persisted, diskVars, rlock, obs>>

\* `if *count > 0 { *count -= 1 }` on a usize counter.
Decrement(n) == IF n > 0 THEN n - 1 ELSE n

\* ClientMessage::Unsubscribe: the write-locked block; restore_pty_size
\* follows after the guard is dropped when the count reached zero.
Unsubscribe(a, s) ==
    /\ Recv(a, <<"unsubscribe", s>>)
    /\ WLockFree
    /\ LET removed == a \in DOMAIN mobile_views /\ s \in mobile_views[a]
           counted == removed /\ s \in DOMAIN session_view_counts
           zero == counted /\ Decrement(session_view_counts[s]) = 0
       IN /\ mobile_views' =
                IF removed THEN [mobile_views EXCEPT ![a] = @ \ {s}] ELSE mobile_views
          /\ session_view_counts' =
                IF zero THEN Del(session_view_counts, s)
                ELSE IF counted
                     THEN [session_view_counts EXCEPT ![s] = Decrement(@)]
                     ELSE session_view_counts
          /\ loc' = [loc EXCEPT ![a] = [Took(a, <<"unsubscribe", s>>) EXCEPT !.sid = s]]
          /\ pc' = [pc EXCEPT ![a] = IF zero THEN "m_unsub_restore" ELSE "m_loop"]
    /\ UNCHANGED <<first, sock, regVars, watchVars, chanVars, persisted, diskVars, rlock, obs>>

\* A restore that is gated on viewers the way a real size is.
restore_if_viewers(s) ==
    IF Get(session_view_counts, s, 0) > 0 THEN SendTo(resize_q, s, <<0, 0>>) ELSE resize_q

\* restore_pty_size: (0, 0) to the session's resize sink, if it is registered.
restore_pty_size(s) == SendTo(resize_q, s, <<0, 0>>)

\* Unsubscribe, after the guard's drop: restore_pty_size(state, &session_id).
UnsubscribeRestore(a) ==
    /\ pc[a] = "m_unsub_restore"
    /\ resize_q' = restore_pty_size(loc[a].sid)
    /\ pc' = [pc EXCEPT ![a] = "m_loop"]
    /\ UNCHANGED <<first, loc, sock, regVars, viewVars, watchVars, client_q, hub, pty_pos,
                   input_q, persisted, diskVars, rlock, obs>>

\* ClientMessage::SendInput: the bytes go to the session's input sink.
SendInput(a, s) ==
    /\ Recv(a, <<"send_input", s>>)
    /\ input_q' = SendTo(input_q, s, <<"text">>)
    /\ obs' = [obs EXCEPT !.owed[s] =
                  @ \/ (s \in DOMAIN sessions /\ sessions[s].waiting # NoWait)]
    /\ loc' = [loc EXCEPT ![a] = Took(a, <<"send_input", s>>)]
    /\ pc' = [pc EXCEPT ![a] = "m_loop"]
    /\ UNCHANGED <<first, sock, regVars, viewVars, watchVars, client_q, hub, pty_pos,
                   resize_q, persisted, diskVars, rlock>>

\* Sizes a PtyResize can carry: the restore sentinel, a real size, and a
\* size with one zero dimension.
Sizes == {<<0, 0>>, <<80, 24>>, <<0, 24>>}

\* A PtyResize that forwards every size, viewers or not.
PtyResizeUngated(a, s, size) ==
    /\ Recv(a, <<"pty_resize", s, size>>)
    /\ resize_q' = SendTo(resize_q, s, size)
    /\ loc' = [loc EXCEPT ![a] = Took(a, <<"pty_resize", s, size>>)]
    /\ pc' = [pc EXCEPT ![a] = "m_loop"]
    /\ UNCHANGED <<first, sock, regVars, viewVars, watchVars, client_q, hub, pty_pos,
                   input_q, persisted, diskVars, rlock, obs>>

\* ClientMessage::PtyResize
PtyResize(a, s, size) ==
    /\ Recv(a, <<"pty_resize", s, size>>)
    /\ LET is_restore == size[1] = 0 /\ size[2] = 0
           has_viewers == Get(session_view_counts, s, 0) > 0
       IN resize_q' = IF ~is_restore /\ ~has_viewers THEN resize_q
                      ELSE SendTo(resize_q, s, size)
    /\ loc' = [loc EXCEPT ![a] = Took(a, <<"pty_resize", s, size>>)]
    /\ pc' = [pc EXCEPT ![a] = "m_loop"]
    /\ UNCHANGED <<first, sock, regVars, viewVars, watchVars, client_q, hub, pty_pos,
                   input_q, persisted, diskVars, rlock, obs>>

\* ClientMessage::Ping: tx.send(Pong).await?
Ping(a, ok) ==
    /\ Recv(a, <<"ping">>)
    /\ loc' = [loc EXCEPT ![a] = Took(a, <<"ping">>)]
    /\ IF ok
       THEN /\ sock' = [sock EXCEPT ![a] = Append(@, <<"pong">>)]
            /\ pc' = [pc EXCEPT ![a] = "m_loop"]
       ELSE /\ pc' = [pc EXCEPT ![a] = "m_failed"]
            /\ UNCHANGED sock
    /\ UNCHANGED <<first, regVars, viewVars, watchVars, chanVars, persisted, diskVars, rlock, obs>>

\* ClientMessage::GetSessions: send_sessions_list(state, tx).await?
GetSessions(a) ==
    /\ Recv(a, <<"get_sessions">>)
    /\ loc' = [loc EXCEPT ![a] = Took(a, <<"get_sessions">>)]
    /\ pc' = [pc EXCEPT ![a] = "m_getsessions"]
    /\ UNCHANGED <<first, sock, regVars, viewVars, watchVars, chanVars, persisted, diskVars, rlock, obs>>

(* ------------------------------------------------------------------ *)
(* process_client_msg: WatchDirectory / UnwatchDirectory               *)
(* ------------------------------------------------------------------ *)

\* validate_existing + to_protocol_path: the normalised form of a request path.
to_protocol_path(p) == IF p = "/r/p/" THEN "/r/p" ELSE p

\* RateLimiter::allow at whole-token grain: the bucket (created full on first
\* use) is refilled by the time elapsed, capped at the burst, then one token
\* is taken if there is one.  `refill` is the elapsed time's worth of tokens.
Refilled(a, refill) ==
    LET t == Get(file_rate_limiters, a, RateBurst) + refill
    IN IF t > RateBurst THEN RateBurst ELSE t

check_fs_rate_limit(a, refill) ==
    /\ WLockFree
    /\ file_rate_limiters' =
          Put(file_rate_limiters, a,
              IF Refilled(a, refill) >= 1 THEN Refilled(a, refill) - 1 ELSE 0)

Allowed(a, refill) == Refilled(a, refill) >= 1

\* `tx.send(reply).await?` ending a request: back to the loop, or out of
\* handle_mobile_client with the error.
Reply(a, frame, ok) ==
    IF ok
    THEN /\ sock' = [sock EXCEPT ![a] = Append(@, frame)]
         /\ pc' = [pc EXCEPT ![a] = "m_loop"]
    ELSE /\ pc' = [pc EXCEPT ![a] = "m_failed"]
         /\ UNCHANGED sock

\* Outcomes of validate_existing(path) and canonical.is_dir() on the live
\* filesystem.
Validations == {"ok", "invalid", "not_a_directory"}

\* ClientMessage::WatchDirectory up to the check of the path: the rate limit,
\* validate_existing and is_dir, each answered with operation_error on failure.
WatchDirectory(a, path, refill, valid, ok) ==
    /\ Recv(a, <<"watch_directory", path>>)
    /\ check_fs_rate_limit(a, refill)
    /\ loc' = [loc EXCEPT ![a] =
                  [Took(a, <<"watch_directory", path>>) EXCEPT
                      !.paths = IF Allowed(a, refill) /\ valid = "ok"
                                THEN {to_protocol_path(path)} ELSE {}]]
    /\ IF ~Allowed(a, refill)
       THEN Reply(a, <<"operation_error", "watch_directory", path, "rate_limited">>, ok)
       ELSE IF valid # "ok"
            THEN Reply(a, <<"operation_error", "watch_directory", path, valid>>, ok)
            ELSE /\ pc' = [pc EXCEPT ![a] = "m_watch_lock"]
                 /\ UNCHANGED sock
    /\ UNCHANGED <<first, regVars, viewVars, file_watch_subscriptions, file_watch_counts,
                   watchers, chanVars, persisted, diskVars, rlock, obs>>

\* A block whose should_watch is the result of the insert alone.
WatchDirectoryLockInserted(a) ==
    /\ pc[a] = "m_watch_lock"
    /\ WLockFree
    /\ LET watch_path == CHOOSE p \in loc[a].paths : TRUE
           entry == Get(file_watch_subscriptions, a, {})
           inserted == watch_path \notin entry
           count == Get(file_watch_counts, watch_path, 0) + 1
       IN /\ file_watch_subscriptions' =
                Put(file_watch_subscriptions, a, entry \cup {watch_path})
          /\ file_watch_counts' =
                IF inserted THEN Put(file_watch_counts, watch_path, count)
                ELSE file_watch_counts
          /\ pc' = [pc EXCEPT ![a] = IF inserted THEN "m_watch_os" ELSE "m_watch_reply"]
    /\ UNCHANGED <<first, loc, sock, regVars, viewVars, file_rate_limiters, watchers,
                   chanVars, persisted, diskVars, rlock, obs>>

\* WatchDirectory: the write-locked block computing should_watch.
WatchDirectoryLock(a) ==
    /\ pc[a] = "m_watch_lock"
    /\ WLockFree
    /\ LET watch_path == CHOOSE p \in loc[a].paths : TRUE
           entry == Get(file_watch_subscriptions, a, {})
           inserted == watch_path \notin entry
           count == Get(file_watch_counts, watch_path, 0) + 1
       IN /\ file_watch_subscriptions' =
                Put(file_watch_subscriptions, a, entry \cup {watch_path})
          /\ file_watch_counts' =
                IF inserted THEN Put(file_watch_counts, watch_path, count)
                ELSE file_watch_counts
          /\ pc' = [pc EXCEPT ![a] =
                IF inserted /\ count = 1 THEN "m_watch_os" ELSE "m_watch_reply"]
    /\ UNCHANGED <<first, loc, sock, regVars, viewVars, file_rate_limiters, watchers,
                   chanVars, persisted, diskVars, rlock, obs>>

\* The directories peers watch and what lies directly in each of them.
WatchDirs == {"/r/p", "/r/p/d", "/r/q"}
Children(w) ==
    CASE w = "/r/p" -> {"/r/p/f", "/r/p/d"}
      [] w = "/r/p/d" -> {"/r/p/d/f"}
      [] w = "/r/q" -> {"/r/q/f"}
      [] OTHER -> {}

\* FileWatcher::watch(path): a path already watched is left alone; otherwise
\* the OS watcher is created, which can fail.
watch(path, os_ok) ==
    IF path \in watchers \/ ~os_ok THEN watchers ELSE watchers \cup {path}

\* FileWatcher::watch(path), known_paths: unless the path is watched already,
\* the path and the entries read_dir finds in it are inserted, before the
\* OS watcher is created.
watch_known(path) ==
    IF path \in watchers THEN fwd.known
    ELSE fwd.known \cup {path} \cup (Children(path) \cap fwd.exists)

\* WatchDirectory: fs.watcher().watch(&watch_path) and the reply.
WatchDirectoryOs(a, os_ok, ok) ==
    /\ pc[a] \in {"m_watch_os", "m_watch_reply"}
    /\ LET watch_path == CHOOSE p \in loc[a].paths : TRUE
           failed == pc[a] = "m_watch_os" /\ watch_path \notin watchers /\ ~os_ok
       IN /\ watchers' = IF pc[a] = "m_watch_os" THEN watch(watch_path, os_ok) ELSE watchers
          /\ fwd' = IF pc[a] = "m_watch_os" THEN [fwd EXCEPT !.known = watch_known(watch_path)]
                    ELSE fwd
          /\ Reply(a, IF failed
                      THEN <<"operation_error", "watch_directory", loc[a].req[2], "io_error">>
                      ELSE <<"operation_success", "watch_directory", watch_path>>, ok)
    /\ loc' = [loc EXCEPT ![a].paths = {}]
    /\ UNCHANGED <<first, regVars, viewVars, file_watch_subscriptions, file_watch_counts,
                   file_rate_limiters, chanVars, persisted, disk, config, search, rlock, obs>>

\* ClientMessage::UnwatchDirectory up to the choice of watch_path: the
\* normalised path when validate_existing succeeds, the path as sent otherwise.
UnwatchDirectory(a, path, refill, valid, ok) ==
    /\ Recv(a, <<"unwatch_directory", path>>)
    /\ check_fs_rate_limit(a, refill)
    /\ loc' = [loc EXCEPT ![a] =
                  [Took(a, <<"unwatch_directory", path>>) EXCEPT
                      !.paths = IF ~Allowed(a, refill) THEN {}
                                ELSE IF valid = "invalid" THEN {path}
                                ELSE {to_protocol_path(path)}]]
    /\ IF ~Allowed(a, refill)
       THEN Reply(a, <<"operation_error", "unwatch_directory", path, "rate_limited">>, ok)
       ELSE /\ pc' = [pc EXCEPT ![a] = "m_unwatch_lock"]
            /\ UNCHANGED sock
    /\ UNCHANGED <<first, regVars, viewVars, file_watch_subscriptions, file_watch_counts,
                   watchers, chanVars, persisted, diskVars, rlock, obs>>

\* UnwatchDirectory: the write-locked block computing should_unwatch.
UnwatchDirectoryLock(a) ==
    /\ pc[a] = "m_unwatch_lock"
    /\ WLockFree
    /\ LET watch_path == CHOOSE p \in loc[a].paths : TRUE
           entry == Get(file_watch_subscriptions, a, {})
           removed == watch_path \in entry
           counted == removed /\ watch_path \in DOMAIN file_watch_counts
           zero == counted /\ Decrement(file_watch_counts[watch_path]) = 0
       IN /\ file_watch_subscriptions' =
                Put(file_watch_subscriptions, a, entry \ {watch_path})
          /\ file_watch_counts' =
                IF zero THEN Del(file_watch_counts, watch_path)
                ELSE IF counted THEN [file_watch_counts EXCEPT ![watch_path] = Decrement(@)]
                     ELSE file_watch_counts
          /\ pc' = [pc EXCEPT ![a] = IF zero THEN "m_unwatch_os" ELSE "m_unwatch_reply"]
    /\ UNCHANGED <<first, loc, sock, regVars, viewVars, file_rate_limiters, watchers,
                   chanVars, persisted, diskVars, rlock, obs>>

\* FileWatcher::unwatch(path)
unwatch(w, path) == w \ {path}

\* UnwatchDirectory: fs.watcher().unwatch(&watch_path) and the reply.
UnwatchDirectoryOs(a, ok) ==
    /\ pc[a] \in {"m_unwatch_os", "m_unwatch_reply"}
    /\ LET watch_path == CHOOSE p \in loc[a].paths : TRUE
       IN /\ watchers' = IF pc[a] = "m_unwatch_os" THEN unwatch(watchers, watch_path)
                         ELSE watchers
          /\ Reply(a, <<"operation_success", "unwatch_directory", watch_path>>, ok)
    /\ loc' = [loc EXCEPT ![a].paths = {}]
    /\ UNCHANGED <<first, regVars, viewVars, file_watch_subscriptions, file_watch_counts,
                   file_rate_limiters, chanVars, persisted, diskVars, rlock, obs>>

(* ------------------------------------------------------------------ *)
(* process_client_msg: ToolApproval and GetSessionHistory              *)
(* ------------------------------------------------------------------ *)

Models == {"numbered", "yes_no", "arrow", "none"}
Responses == {"yes", "yes_always", "no", "maybe"}

\* A mapping whose arrow model moves right once, not twice, for "no".
approval_input_one_right(model, response) ==
    CASE model = "numbered" ->
            (CASE response = "yes" -> "1\n"
               [] response = "yes_always" -> "2\n"
               [] response = "no" -> "3\n"
               [] OTHER -> "")
      [] model = "yes_no" ->
            (CASE response \in {"yes", "yes_always"} -> "y\n"
               [] response = "no" -> "n\n"
               [] OTHER -> "")
      [] model = "arrow" ->
            (CASE response = "yes" -> "\r"
               [] response \in {"yes_always", "no"} -> "ESC[C\r"
               [] OTHER -> "")
      [] OTHER -> ""

approval_input_for(model, response) ==
    CASE model = "numbered" ->
            (CASE response = "yes" -> "1\n"
               [] response = "yes_always" -> "2\n"
               [] response = "no" -> "3\n"
               [] OTHER -> "")
      [] model = "yes_no" ->
            (CASE response \in {"yes", "yes_always"} -> "y\n"
               [] response = "no" -> "n\n"
               [] OTHER -> "")
      [] model = "arrow" ->
            (CASE response = "yes" -> "\r"
               [] response = "yes_always" -> "ESC[C\r"
               [] response = "no" -> "ESC[CESC[C\r"
               [] OTHER -> "")
      [] OTHER -> ""

\* A lookup that ignores the waiting state's approval model and always takes
\* the default of the session's CLI kind.
ToolApprovalByDefault(a, s, response) ==
    /\ Recv(a, <<"tool_approval", s, response>>)
    /\ WLockFree
    /\ LET model == IF s \notin DOMAIN sessions THEN "none" ELSE sessions[s].default_model
           maybe_input == approval_input_for(model, response)
       IN /\ loc' = [loc EXCEPT ![a] =
                    [Took(a, <<"tool_approval", s, response>>) EXCEPT
                        !.sid = s, !.chunk = <<maybe_input>>]]
          /\ pc' = [pc EXCEPT ![a] = IF maybe_input = "" THEN "m_loop" ELSE "m_approve"]
    /\ UNCHANGED <<first, sock, regVars, viewVars, watchVars, chanVars, persisted, diskVars, rlock, obs>>

\* ClientMessage::ToolApproval, first write-locked block: maybe_input from the
\* waiting state's approval model, else the CLI kind's default model.
ToolApproval(a, s, response) ==
    /\ Recv(a, <<"tool_approval", s, response>>)
    /\ WLockFree
    /\ LET model == IF s \notin DOMAIN sessions THEN "none"
                    ELSE IF sessions[s].waiting # NoWait
                         THEN sessions[s].waiting.approval_model
                         ELSE sessions[s].default_model
           maybe_input == approval_input_for(model, response)
       IN /\ loc' = [loc EXCEPT ![a] =
                    [Took(a, <<"tool_approval", s, response>>) EXCEPT
                        !.sid = s, !.chunk = <<maybe_input>>]]
          /\ pc' = [pc EXCEPT ![a] = IF maybe_input = "" THEN "m_loop" ELSE "m_approve"]
    /\ UNCHANGED <<first, sock, regVars, viewVars, watchVars, chanVars, persisted, diskVars, rlock, obs>>

\* WaitingCleared queued to every mobile client.
broadcast_waiting_cleared(s) == QueueToAll(client_q, <<"waiting_cleared", s>>)

\* ToolApproval, second write-locked block: the input goes to the sink and
\* the waiting state is cleared.
ToolApprovalSend(a) ==
    /\ pc[a] = "m_approve"
    /\ WLockFree
    /\ LET s == loc[a].sid
       IN IF s \in DOMAIN sessions
          THEN /\ input_q' = SendTo(input_q, s, <<"approval", loc[a].chunk[1]>>)
               /\ sessions' = [sessions EXCEPT ![s].waiting = NoWait]
               /\ obs' = [obs EXCEPT !.evlog[s] =
                             IF sessions[s].waiting # NoWait
                             THEN Append(@, <<"clear", "approval">>) ELSE @]
               /\ pc' = [pc EXCEPT ![a] = "m_approve_bcast"]
          ELSE /\ pc' = [pc EXCEPT ![a] = "m_loop"]
               /\ UNCHANGED <<input_q, sessions, obs>>
    /\ loc' = [loc EXCEPT ![a].chunk = <<>>]
    /\ UNCHANGED <<first, sock, mobile_clients, push_tokens, viewVars, watchVars, client_q,
                   hub, pty_pos, resize_q, persisted, diskVars, rlock>>

\* ToolApproval: broadcast_waiting_cleared after the clearing block.
ToolApprovalBroadcast(a) ==
    /\ pc[a] = "m_approve_bcast"
    /\ client_q' = broadcast_waiting_cleared(loc[a].sid)
    /\ obs' = [obs EXCEPT !.owed[loc[a].sid] = FALSE]
    /\ pc' = [pc EXCEPT ![a] = "m_loop"]
    /\ UNCHANGED <<first, loc, sock, regVars, viewVars, watchVars, hub, pty_pos, input_q,
                   resize_q, persisted, diskVars, rlock>>

\* The last n elements of a sequence (all of it when it is shorter).
LastN(q, n) == IF Len(q) <= n THEN q ELSE SubSeq(q, Len(q) - n + 1, Len(q))

\* max_bytes of GetSessionHistory; -1 stands for an absent value.
MaxBytesArgs == {-1, 0, 1}

\* ClientMessage::GetSessionHistory: the tail of the scrollback and its length.
GetSessionHistory(a, s, max_bytes, ok) ==
    /\ Recv(a, <<"get_session_history", s, max_bytes>>)
    /\ loc' = [loc EXCEPT ![a] = Took(a, <<"get_session_history", s, max_bytes>>)]
    /\ LET max == IF max_bytes = -1 THEN ScrollbackMax ELSE max_bytes
           data == IF s \in DOMAIN sessions THEN LastN(sessions[s].scrollback, max) ELSE <<>>
           total == IF s \in DOMAIN sessions THEN Len(sessions[s].scrollback) ELSE 0
       IN Reply(a, <<"session_history", s, data, total>>, ok)
    /\ UNCHANGED <<first, regVars, viewVars, watchVars, chanVars, persisted, diskVars, rlock, obs>>

(* ------------------------------------------------------------------ *)
(* handle_mobile_client: the select loop and the unregistering         *)
(* ------------------------------------------------------------------ *)

\* A pty_rx branch that treats Lagged like a closed channel: break.
PtyRecvLagBreaks(a, ok) ==
    /\ pc[a] = "m_loop"
    /\ pty_pos[a] < Len(hub)
    /\ IF Len(hub) - pty_pos[a] > BroadcastCap
       THEN /\ pc' = [pc EXCEPT ![a] = "m_unreg"]
            /\ pty_pos' = [pty_pos EXCEPT ![a] = Len(hub)]
            /\ UNCHANGED sock
       ELSE /\ pty_pos' = [pty_pos EXCEPT ![a] = @ + 1]
            /\ sock' = [sock EXCEPT ![a] =
                    Append(@, <<"pty_bytes", hub[pty_pos[a] + 1][1], hub[pty_pos[a] + 1][2]>>)]
            /\ UNCHANGED pc
    /\ UNCHANGED <<first, loc, regVars, viewVars, watchVars, client_q, hub, input_q,
                   resize_q, persisted, diskVars, rlock, obs>>

\* A pty_rx branch that forwards a chunk only to a peer subscribed to the
\* chunk's session.
PtyRecvSubscribed(a, ok) ==
    /\ pc[a] = "m_loop"
    /\ pty_pos[a] < Len(hub)
    /\ IF Len(hub) - pty_pos[a] > BroadcastCap
       THEN /\ pty_pos' = [pty_pos EXCEPT ![a] = Len(hub) - BroadcastCap]
            /\ UNCHANGED <<pc, sock>>
       ELSE /\ pty_pos' = [pty_pos EXCEPT ![a] = @ + 1]
            /\ sock' = [sock EXCEPT ![a] =
                    IF hub[pty_pos[a] + 1][1] \in Get(mobile_views, a, {})
                    THEN Append(@, <<"pty_bytes", hub[pty_pos[a] + 1][1],
                                     hub[pty_pos[a] + 1][2]>>)
                    ELSE @]
            /\ UNCHANGED pc
    /\ UNCHANGED <<first, loc, regVars, viewVars, watchVars, client_q, hub, input_q,
                   resize_q, persisted, diskVars, rlock, obs>>

\* pty_rx.recv(): Lagged when more than the channel's capacity is unread (the
\* cursor moves to the oldest retained entry and the loop continues), else
\* the next entry goes out as PtyBytes; a failed socket write breaks the loop.
PtyRecv(a, ok) ==
    /\ pc[a] = "m_loop"
    /\ pty_pos[a] < Len(hub)
    /\ IF Len(hub) - pty_pos[a] > BroadcastCap
       THEN /\ pty_pos' = [pty_pos EXCEPT ![a] = Len(hub) - BroadcastCap]
            /\ UNCHANGED <<pc, sock>>
       ELSE /\ pty_pos' = [pty_pos EXCEPT ![a] = @ + 1]
            /\ IF ok
               THEN /\ sock' = [sock EXCEPT ![a] =
                            Append(@, <<"pty_bytes", hub[pty_pos[a] + 1][1],
                                        hub[pty_pos[a] + 1][2]>>)]
                    /\ UNCHANGED pc
               ELSE /\ pc' = [pc EXCEPT ![a] = "m_unreg"]
                    /\ UNCHANGED sock
    /\ UNCHANGED <<first, loc, regVars, viewVars, watchVars, client_q, hub, input_q,
                   resize_q, persisted, diskVars, rlock, obs>>

\* A loop that ends the connection on a frame it cannot parse.
UnparsedFrameBreaks(a, frame) ==
    /\ pc[a] = "m_loop"
    /\ loc[a].nreq < MaxReq
    /\ frame[1] \in {"garbage", "nontext"}
    /\ loc' = [loc EXCEPT ![a] = Took(a, frame)]
    /\ pc' = [pc EXCEPT ![a] = "m_unreg"]
    /\ UNCHANGED <<first, sock, regVars, viewVars, watchVars, chanVars, persisted, diskVars,
                   rlock, obs>>

\* rx.next() yields a text frame that is no ClientMessage (logged and
\* ignored) or a frame that is neither Text, Ping nor Close (ignored).
UnparsedFrame(a, frame) ==
    /\ pc[a] = "m_loop"
    /\ loc[a].nreq < MaxReq
    /\ frame[1] \in {"garbage", "nontext"}
    /\ loc' = [loc EXCEPT ![a] = Took(a, frame)]
    /\ UNCHANGED <<pc, first, sock, regVars, viewVars, watchVars, chanVars, persisted,
                   diskVars, rlock, obs>>

\* client_rx.recv(): a queued message goes out; a failed write breaks the loop.
Queued(a, ok) ==
    /\ pc[a] = "m_loop"
    /\ client_q[a] # <<>>
    /\ client_q' = [client_q EXCEPT ![a] = Tail(@)]
    /\ IF ok
       THEN /\ sock' = [sock EXCEPT ![a] = Append(@, Head(client_q[a]))]
            /\ UNCHANGED pc
       ELSE /\ pc' = [pc EXCEPT ![a] = "m_unreg"]
            /\ UNCHANGED sock
    /\ UNCHANGED <<first, loc, regVars, viewVars, watchVars, hub, pty_pos, input_q,
                   resize_q, persisted, diskVars, rlock, obs>>

\* rx.next() yields Close or the end of the stream: break.
MobileClose(a) ==
    /\ pc[a] = "m_loop"
    /\ pc' = [pc EXCEPT ![a] = "m_unreg"]
    /\ UNCHANGED <<first, loc, sock, regVars, viewVars, watchVars, chanVars, persisted, diskVars,
                   rlock, obs>>

\* After the loop: mobile_clients.remove(&addr); file_rate_limiters.remove(&addr).
MobileUnregister(a) ==
    /\ pc[a] = "m_unreg"
    /\ WLockFree
    /\ mobile_clients' = mobile_clients \ {a}
    /\ file_rate_limiters' = Del(file_rate_limiters, a)
    /\ pc' = [pc EXCEPT ![a] = "m_cleanup"]
    /\ UNCHANGED <<first, loc, sock, sessions, push_tokens, viewVars,
                   file_watch_subscriptions, file_watch_counts, watchers, chanVars,
                   persisted, diskVars, rlock, obs>>

\* A cleanup that drops the peer's sets and leaves the counts as they were.
ReleasedNothing(counts, keys) == counts

\* The counts after a peer holding `keys` lets go of each of them.
Released(counts, keys) ==
    [k \in {x \in DOMAIN counts : ~(x \in keys /\ Decrement(counts[x]) = 0)} |->
        IF k \in keys THEN Decrement(counts[k]) ELSE counts[k]]

\* The keys among `keys` whose count reaches zero.
Zeroed(counts, keys) == {k \in keys \cap DOMAIN counts : Decrement(counts[k]) = 0}

\* cleanup_client_state, the write-locked block.
cleanup_client_state(a) ==
    /\ pc[a] = "m_cleanup"
    /\ WLockFree
    /\ LET held == Get(mobile_views, a, {})
           paths == Get(file_watch_subscriptions, a, {})
       IN /\ mobile_views' = Del(mobile_views, a)
          /\ session_view_counts' = Released(session_view_counts, held)
          /\ file_watch_subscriptions' = Del(file_watch_subscriptions, a)
          /\ file_watch_counts' = Released(file_watch_counts, paths)
          /\ loc' = [loc EXCEPT ![a].todo = Zeroed(session_view_counts, held),
                                ![a].paths = Zeroed(file_watch_counts, paths)]
    /\ pc' = [pc EXCEPT ![a] = "m_unwatch"]
    /\ UNCHANGED <<first, sock, regVars, file_rate_limiters, watchers, chanVars, persisted, diskVars,
                   rlock, obs>>

\* cleanup_client_state: fs.watcher().unwatch(&path) for every path of to_unwatch.
CleanupUnwatch(a) ==
    /\ pc[a] = "m_unwatch"
    /\ watchers' = watchers \ loc[a].paths
    /\ loc' = [loc EXCEPT ![a].paths = {}]
    /\ pc' = [pc EXCEPT ![a] = IF loc[a].todo = {} THEN "m_done" ELSE "m_restore"]
    /\ UNCHANGED <<first, sock, regVars, viewVars, file_watch_subscriptions,
                   file_watch_counts, file_rate_limiters, chanVars, persisted, diskVars, rlock, obs>>

\* cleanup_client_state: restore_pty_size for one session of sessions_to_restore.
CleanupRestore(a, s) ==
    /\ pc[a] = "m_restore"
    /\ s \in loc[a].todo
    /\ resize_q' = restore_pty_size(s)
    /\ loc' = [loc EXCEPT ![a].todo = @ \ {s}]
    /\ pc' = [pc EXCEPT ![a] = IF loc[a].todo = {s} THEN "m_done" ELSE "m_restore"]
    /\ UNCHANGED <<first, sock, regVars, viewVars, watchVars, client_q, hub, pty_pos,
                   input_q, persisted, diskVars, rlock, obs>>

(* ------------------------------------------------------------------ *)
(* handle_pty_session                                                  *)
(* ------------------------------------------------------------------ *)

\* Results of detect_wait_event: (wait_type, prompt_hash, approval_model).
WaitEvents ==
    {[wait_type |-> "tool_approval", prompt_hash |-> 1, approval_model |-> "numbered"],
     [wait_type |-> "tool_approval", prompt_hash |-> 2, approval_model |-> "yes_no"],
     [wait_type |-> "plan_approval", prompt_hash |-> 1, approval_model |-> "arrow"]}

\* Lengths of a chunk's normalised text.
NChars == {0, ClearThreshold - 1, ClearThreshold}

\* Registration: an empty or missing session_id is refused; otherwise the
\* session is inserted (replacing one of the same id) with no waiting state
\* and an empty scrollback, its sinks leading to this task.
RegisterSession(a, model) ==
    /\ pc[a] = "w_register"
    /\ IF first[a][2] = ""
       THEN /\ pc' = [pc EXCEPT ![a] = "w_refused"]
            /\ UNCHANGED <<loc, sessions, input_q, resize_q, obs>>
       ELSE /\ WLockFree
            /\ LET s == first[a][2]
               IN /\ sessions' = Put(sessions, s,
                        [owner |-> a, waiting |-> NoWait, scrollback |-> <<>>,
                         default_model |-> model])
                  /\ loc' = [loc EXCEPT ![a].sid = s]
                  /\ obs' = [obs EXCEPT
                        !.stream[s] = <<>>,
                        !.owed[s] = FALSE,
                        !.evlog[s] = IF s \in DOMAIN sessions /\ sessions[s].waiting # NoWait
                                     THEN Append(@, <<"clear", "end">>) ELSE @]
            /\ input_q' = [input_q EXCEPT ![a] = <<>>]
            /\ resize_q' = [resize_q EXCEPT ![a] = <<>>]
            /\ pc' = [pc EXCEPT ![a] = "w_bcast"]
    /\ UNCHANGED <<first, sock, mobile_clients, push_tokens, viewVars, watchVars, client_q,
                   hub, pty_pos, persisted, diskVars, rlock>>

\* broadcast_sessions_update, after registration and after the teardown.
broadcast_sessions_update(a) ==
    /\ pc[a] \in {"w_bcast", "w_end_bcast"}
    /\ client_q' = QueueToAll(client_q, <<"sessions", DOMAIN sessions>>)
    /\ pc' = [pc EXCEPT ![a] = IF pc[a] = "w_bcast" THEN "w_persist" ELSE "w_end_persist"]
    /\ UNCHANGED <<first, loc, sock, regVars, viewVars, watchVars, hub, pty_pos, input_q,
                   resize_q, persisted, diskVars, rlock, obs>>

\* persist_sessions_to_file, after registration and after the teardown.
persist_sessions_to_file(a) ==
    /\ pc[a] \in {"w_persist", "w_end_persist"}
    /\ persisted' = DOMAIN sessions
    /\ pc' = [pc EXCEPT ![a] = IF pc[a] = "w_persist" THEN "w_ack" ELSE "w_done"]
    /\ UNCHANGED <<first, loc, sock, regVars, viewVars, watchVars, chanVars, diskVars, rlock,
                   obs>>

\* tx.send({"type":"registered"}).await?
SendAck(a, ok) ==
    /\ pc[a] = "w_ack"
    /\ IF ok
       THEN /\ sock' = [sock EXCEPT ![a] = Append(@, <<"registered">>)]
            /\ pc' = [pc EXCEPT ![a] = "w_loop"]
       ELSE /\ pc' = [pc EXCEPT ![a] = "w_failed"]
            /\ UNCHANGED sock
    /\ UNCHANGED <<first, loc, regVars, viewVars, watchVars, chanVars, persisted, diskVars, rlock, obs>>

\* Chunks of one to MaxChunkLen bytes.
RECURSIVE SeqsUpTo(_, _)
SeqsUpTo(S, n) ==
    IF n = 0 THEN {<<>>}
    ELSE LET shorter == SeqsUpTo(S, n - 1)
         IN shorter \cup {Append(q, x) : q \in {r \in shorter : Len(r) = n - 1}, x \in S}
Chunks == SeqsUpTo(Bytes, MaxChunkLen) \ {<<>>}

\* The normalised text of a chunk is a sequence of characters, "x" standing
\* for any character that is not whitespace and " " for whitespace.
Xs(n) == [i \in 1..n |-> "x"]

\* str::trim: leading and trailing whitespace removed.
RECURSIVE trim_start(_)
trim_start(t) == IF t # <<>> /\ Head(t) = " " THEN trim_start(Tail(t)) ELSE t
RECURSIVE trim_end(_)
trim_end(t) ==
    IF t # <<>> /\ t[Len(t)] = " " THEN trim_end(SubSeq(t, 1, Len(t) - 1)) ELSE t
trim(t) == trim_end(trim_start(t))

\* A pty_output text frame: pty_broadcast.send((session_id, bytes)).  The
\* chunk's normalised text and the detector's answer for the buffer it
\* extends come with it.
PtyOutputText(a, bytes, text, ev) ==
    /\ pc[a] = "w_loop"
    /\ loc[a].nout < MaxChunks
    /\ hub' = Append(hub, <<loc[a].sid, bytes>>)
    /\ loc' = [loc EXCEPT ![a].nout = @ + 1, ![a].chunk = bytes, ![a].text = text,
                          ![a].ev = IF text = <<>> THEN NoWait ELSE ev]
    /\ pc' = [pc EXCEPT ![a] = "w_scroll"]
    /\ UNCHANGED <<first, sock, regVars, viewVars, watchVars, client_q, pty_pos, input_q,
                   resize_q, persisted, diskVars, rlock, obs>>

\* A pty_output text frame whose normalised text is nchars characters
\* without whitespace.
PtyOutput(a, bytes, nchars, ev) == PtyOutputText(a, bytes, Xs(nchars), ev)

\* A trim with `if` for `while`: at most one byte is dropped per chunk.
TrimFrontOnce(q, max) == IF Len(q) > max THEN Tail(q) ELSE q

\* `while scrollback.len() > scrollback_max_bytes { scrollback.pop_front() }`
RECURSIVE TrimFront(_, _)
TrimFront(q, max) == IF Len(q) > max THEN TrimFront(Tail(q), max) ELSE q

\* pty_output: the write-locked scrollback append.
AppendScrollback(a) ==
    /\ pc[a] = "w_scroll"
    /\ WLockFree
    /\ LET s == loc[a].sid
       IN IF s \in DOMAIN sessions
          THEN /\ sessions' = [sessions EXCEPT ![s].scrollback =
                                  TrimFront(@ \o loc[a].chunk, ScrollbackMax)]
               /\ obs' = [obs EXCEPT !.stream[s] = @ \o loc[a].chunk]
          ELSE UNCHANGED <<sessions, obs>>
    /\ loc' = [loc EXCEPT ![a].chunk = <<>>]
    /\ pc' = [pc EXCEPT ![a] = IF loc[a].text = <<>> THEN "w_loop" ELSE "w_track"]
    /\ UNCHANGED <<first, sock, mobile_clients, push_tokens, viewVars, watchVars, chanVars,
                   persisted, diskVars, rlock>>

\* pty_output with non-empty normalised text: the write-locked
\* cli_tracker.update_from_output (the CLI kind, hence the default approval
\* model, may change: "keep" leaves it), then detect_wait_event on the buffer.
UpdateTracker(a, model) ==
    /\ pc[a] = "w_track"
    /\ WLockFree
    /\ LET s == loc[a].sid
       IN sessions' = IF s \in DOMAIN sessions /\ model # "keep"
                      THEN [sessions EXCEPT ![s].default_model = model]
                      ELSE sessions
    /\ pc' = [pc EXCEPT ![a] = IF loc[a].ev # NoWait THEN "w_wait" ELSE "w_clear"]
    /\ UNCHANGED <<first, loc, sock, mobile_clients, push_tokens, viewVars, watchVars,
                   chanVars, persisted, diskVars, rlock, obs>>

\* An is_new that compares the prompt hash alone.
is_new_by_hash(w, ev) == w = NoWait \/ w.prompt_hash # ev.prompt_hash

\* is_new of the should_notify block.
is_new(w, ev) == w = NoWait \/ w.prompt_hash # ev.prompt_hash \/ w.wait_type # ev.wait_type

\* A wait event was detected: the write-locked should_notify block.
StoreWaiting(a) ==
    /\ pc[a] = "w_wait"
    /\ WLockFree
    /\ LET s == loc[a].sid
           ev == loc[a].ev
           should_notify == s \in DOMAIN sessions /\ is_new(sessions[s].waiting, ev)
       IN /\ sessions' = IF should_notify THEN [sessions EXCEPT ![s].waiting = ev]
                         ELSE sessions
          /\ pc' = [pc EXCEPT ![a] = IF should_notify THEN "w_wfi" ELSE "w_loop"]
          /\ loc' = [loc EXCEPT ![a].ev = IF should_notify THEN @ ELSE NoWait]
          /\ obs' = [obs EXCEPT !.evlog[s] = Append(@, <<"event", ev.wait_type, ev.prompt_hash>>)]
    /\ UNCHANGED <<first, sock, mobile_clients, push_tokens, viewVars, watchVars, chanVars,
                   persisted, diskVars, rlock>>

\* broadcast_waiting_for_input: the session's waiting state as it is now.
BroadcastWaiting(a) ==
    /\ pc[a] = "w_wfi"
    /\ LET s == loc[a].sid
       IN IF s \in DOMAIN sessions /\ sessions[s].waiting # NoWait
          THEN /\ client_q' = QueueToAll(client_q,
                      <<"waiting_for_input", s, sessions[s].waiting.wait_type,
                        sessions[s].waiting.prompt_hash>>)
               /\ obs' = [obs EXCEPT !.nwfi[s] = @ + 1]
          ELSE UNCHANGED <<client_q, obs>>
    /\ pc' = [pc EXCEPT ![a] = "w_push"]
    /\ UNCHANGED <<first, loc, sock, regVars, viewVars, watchVars, hub, pty_pos, input_q,
                   resize_q, persisted, diskVars, rlock>>

\* The push_tokens snapshot and the spawned send_push_notifications task.
SpawnPush(a) ==
    /\ pc[a] = "w_push"
    /\ obs' = [obs EXCEPT !.npush[loc[a].sid] = @ + 1]
    /\ loc' = [loc EXCEPT ![a].ev = NoWait]
    /\ pc' = [pc EXCEPT ![a] = "w_loop"]
    /\ UNCHANGED <<first, sock, regVars, viewVars, watchVars, chanVars, persisted, diskVars, rlock>>

\* Characters of t that are not whitespace.
NonWhitespace(t) == Cardinality({i \in 1..Len(t) : t[i] # " "})

\* A should_clear block that counts the characters that are not whitespace.
ClearOnOutputNonWhitespace(a) ==
    /\ pc[a] = "w_clear"
    /\ WLockFree
    /\ LET s == loc[a].sid
           should_clear == /\ s \in DOMAIN sessions
                           /\ sessions[s].waiting # NoWait
                           /\ NonWhitespace(loc[a].text) >= ClearThreshold
       IN /\ sessions' = IF should_clear THEN [sessions EXCEPT ![s].waiting = NoWait]
                         ELSE sessions
          /\ obs' = [obs EXCEPT !.evlog[s] =
                        IF should_clear THEN Append(@, <<"clear", "output">>) ELSE @]
          /\ pc' = [pc EXCEPT ![a] = IF should_clear THEN "w_cleared" ELSE "w_loop"]
    /\ UNCHANGED <<first, loc, sock, mobile_clients, push_tokens, viewVars, watchVars,
                   chanVars, persisted, diskVars, rlock>>

\* No wait event: the write-locked should_clear block.
ClearOnOutput(a) ==
    /\ pc[a] = "w_clear"
    /\ WLockFree
    /\ LET s == loc[a].sid
           should_clear == /\ s \in DOMAIN sessions
                           /\ sessions[s].waiting # NoWait
                           /\ Len(trim(loc[a].text)) >= ClearThreshold
       IN /\ sessions' = IF should_clear THEN [sessions EXCEPT ![s].waiting = NoWait]
                         ELSE sessions
          /\ obs' = [obs EXCEPT !.evlog[s] =
                        IF should_clear THEN Append(@, <<"clear", "output">>) ELSE @]
          /\ pc' = [pc EXCEPT ![a] = IF should_clear THEN "w_cleared" ELSE "w_loop"]
    /\ UNCHANGED <<first, loc, sock, mobile_clients, push_tokens, viewVars, watchVars,
                   chanVars, persisted, diskVars, rlock>>

\* broadcast_waiting_cleared after should_clear or after forwarded input.
BroadcastCleared(a) ==
    /\ pc[a] \in {"w_cleared", "w_input_bcast"}
    /\ client_q' = broadcast_waiting_cleared(loc[a].sid)
    /\ obs' = [obs EXCEPT !.owed[loc[a].sid] = FALSE]
    /\ pc' = [pc EXCEPT ![a] = "w_loop"]
    /\ UNCHANGED <<first, loc, sock, regVars, viewVars, watchVars, hub, pty_pos, input_q,
                   resize_q, persisted, diskVars, rlock>>

\* input_rx.recv(): the bytes go to the wrapper as an input frame; a failed
\* socket write breaks the loop.
ForwardInput(a, ok) ==
    /\ pc[a] = "w_loop"
    /\ input_q[a] # <<>>
    /\ input_q' = [input_q EXCEPT ![a] = Tail(@)]
    /\ IF ok
       THEN /\ sock' = [sock EXCEPT ![a] = Append(@, <<"input">> \o Head(input_q[a]))]
            /\ pc' = [pc EXCEPT ![a] = "w_input_clear"]
       ELSE /\ pc' = [pc EXCEPT ![a] = "w_unreg"]
            /\ UNCHANGED sock
    /\ UNCHANGED <<first, loc, regVars, viewVars, watchVars, client_q, hub, pty_pos,
                   resize_q, persisted, diskVars, rlock, obs>>

\* After forwarded input: the write-locked clearing of the waiting state.
ClearOnInput(a) ==
    /\ pc[a] = "w_input_clear"
    /\ WLockFree
    /\ LET s == loc[a].sid
           waiting == s \in DOMAIN sessions /\ sessions[s].waiting # NoWait
       IN /\ sessions' = IF waiting THEN [sessions EXCEPT ![s].waiting = NoWait] ELSE sessions
          /\ obs' = [obs EXCEPT !.evlog[s] = IF waiting THEN Append(@, <<"clear", "input">>) ELSE @]
          /\ pc' = [pc EXCEPT ![a] = IF waiting THEN "w_input_bcast" ELSE "w_loop"]
    /\ UNCHANGED <<first, loc, sock, mobile_clients, push_tokens, viewVars, watchVars,
                   chanVars, persisted, diskVars, rlock>>

\* resize_rx.recv(): the size goes to the wrapper as a resize frame; a failed
\* socket write breaks the loop.
ForwardResize(a, ok) ==
    /\ pc[a] = "w_loop"
    /\ resize_q[a] # <<>>
    /\ resize_q' = [resize_q EXCEPT ![a] = Tail(@)]
    /\ IF ok
       THEN /\ sock' = [sock EXCEPT ![a] = Append(@, <<"resize">> \o Head(resize_q[a]))]
            /\ UNCHANGED pc
       ELSE /\ pc' = [pc EXCEPT ![a] = "w_unreg"]
            /\ UNCHANGED sock
    /\ UNCHANGED <<first, loc, regVars, viewVars, watchVars, client_q, hub, pty_pos,
                   input_q, persisted, diskVars, rlock, obs>>

ExitCodes == {0, 1}

\* A session_ended frame (with its exit_code), a Close frame or the end of
\* the stream (exit_code stays 0): break.
WrapperEnds(a, code) ==
    /\ pc[a] = "w_loop"
    /\ loc' = [loc EXCEPT ![a].exit_code = code]
    /\ pc' = [pc EXCEPT ![a] = "w_unreg"]
    /\ UNCHANGED <<first, sock, regVars, viewVars, watchVars, chanVars, persisted, diskVars, rlock, obs>>

\* A binary frame: pty_broadcast.send((session_id, data)) and nothing else.
BinaryFrame(a, bytes) ==
    /\ pc[a] = "w_loop"
    /\ loc[a].nout < MaxChunks
    /\ hub' = Append(hub, <<loc[a].sid, bytes>>)
    /\ loc' = [loc EXCEPT ![a].nout = @ + 1]
    /\ UNCHANGED <<pc, first, sock, regVars, viewVars, watchVars, client_q, pty_pos, input_q,
                   resize_q, persisted, diskVars, rlock, obs>>

\* After the loop: sessions.remove(&session_id) and SessionEnded to every
\* mobile client, in one write-locked block.
UnregisterSession(a) ==
    /\ pc[a] = "w_unreg"
    /\ WLockFree
    /\ LET s == loc[a].sid
       IN /\ sessions' = Del(sessions, s)
          /\ client_q' = QueueToAll(client_q, <<"session_ended", s, loc[a].exit_code>>)
          /\ obs' = [obs EXCEPT
                !.owed[s] = FALSE,
                !.evlog[s] = IF s \in DOMAIN sessions /\ sessions[s].waiting # NoWait
                             THEN Append(@, <<"clear", "end">>) ELSE @]
    /\ pc' = [pc EXCEPT ![a] = "w_end_bcast"]
    /\ UNCHANGED <<first, loc, sock, mobile_clients, push_tokens, viewVars, watchVars, hub,
                   pty_pos, input_q, resize_q, persisted, diskVars, rlock>>

(* ------------------------------------------------------------------ *)
(* Specifications                                                      *)
(* ------------------------------------------------------------------ *)

\* handle_mobile_client from the registration to the reprocessing of a hello
\* first frame, every socket write after the welcome succeeding.
MobileEntry(a) ==
    \/ MobileRegister(a)
    \/ SessionsListLock(a)
    \/ SessionsListSend(a, TRUE)
    \/ WaitingStatesLock(a)
    \/ FirstFrameSkipped(a)

\* handle_mobile_client after the select loop.
MobileExit(a) ==
    \/ MobileUnregister(a)
    \/ cleanup_client_state(a)
    \/ CleanupUnwatch(a)
    \/ \E s \in SessionIds : CleanupRestore(a, s)

\* handle_pty_session up to the select loop, the acknowledgement succeeding.
WrapperEntry(a) ==
    \/ RegisterSession(a, "numbered")
    \/ broadcast_sessions_update(a)
    \/ persist_sessions_to_file(a)
    \/ SendAck(a, TRUE)

\* Views and watches: two remote peers subscribe to and unsubscribe from S1,
\* watch and unwatch the directory /r/p, ping while their socket is broken,
\* and leave at any time.
NextViews ==
    \/ \E a \in Remotes : handle_connection(a, <<"hello", "match">>)
    \/ \E a \in Remotes : MobileEntry(a)
    \/ \E a \in Remotes, ok \in BOOLEAN : SendWelcome(a, ok)
    \/ \E a \in Remotes : Subscribe(a, "S1")
    \/ \E a \in Remotes : Unsubscribe(a, "S1")
    \/ \E a \in Remotes : UnsubscribeRestore(a)
    \/ \E a \in Remotes : WatchDirectory(a, "/r/p/", RateBurst, "ok", TRUE)
    \/ \E a \in Remotes : WatchDirectoryLock(a)
    \/ \E a \in Remotes : WatchDirectoryOs(a, TRUE, TRUE)
    \/ \E a \in Remotes : UnwatchDirectory(a, "/r/p", RateBurst, "ok", TRUE)
    \/ \E a \in Remotes : UnwatchDirectoryLock(a)
    \/ \E a \in Remotes : UnwatchDirectoryOs(a, TRUE)
    \/ \E a \in Remotes : Ping(a, FALSE)
    \/ \E a \in Remotes : MobileClose(a)
    \/ \E a \in Remotes : MobileExit(a)

SpecViews == Init /\ [][NextViews]_vars


(* ------------------------------------------------------------------ *)
(* Reference counts and disconnect cleanup                             *)
(* ------------------------------------------------------------------ *)

\* Peers whose entry of a per-peer set map contains k.
Holders(m, k) == {a \in DOMAIN m : k \in m[a]}

\* Every key counted or held by some peer.
Keys(counts, m) == DOMAIN counts \cup UNION {m[a] : a \in DOMAIN m}

\* C1: in every reachable state each session's view count (0 when absent)
\* is the number of peers whose subscribed-session set contains it, and each
\* normalised path's watch count (0 when absent) is the number of peers whose
\* watched-path set contains it.
RefCountsMatch ==
    /\ \A s \in SessionIds \cup Keys(session_view_counts, mobile_views) :
          Get(session_view_counts, s, 0) = Cardinality(Holders(mobile_views, s))
    /\ \A p \in ReqPaths \cup Keys(file_watch_counts, file_watch_subscriptions) :
          Get(file_watch_counts, p, 0) = Cardinality(Holders(file_watch_subscriptions, p))

\* C1 witness: two peers held S1 and /r/p, one of them has disconnected and
\* been cleaned up, the other still holds both.
OneViewerLeft ==
    \E a \in Remotes, b \in Remotes :
        /\ pc[a] = "m_done"
        /\ loc[a].nreq > 1
        /\ pc[b] = "m_loop"
        /\ Get(session_view_counts, "S1", 0) = 1
        /\ Get(file_watch_counts, "/r/p", 0) = 1
        /\ Holders(mobile_views, "S1") = {b}

\* The handler of a's connection has returned.
Returned(a) == pc[a] \in {"m_done", "m_failed"}

\* C2 (as claimed): once the handler of a mobile connection has returned,
\* whatever ended it, the peer is in none of mobile_clients, mobile_views,
\* file_watch_subscriptions and file_rate_limiters, so no count includes it.
EndedPeerIsForgotten ==
    \A a \in Remotes :
        Returned(a) =>
            /\ a \notin mobile_clients
            /\ a \notin DOMAIN mobile_views
            /\ a \notin DOMAIN file_watch_subscriptions
            /\ a \notin DOMAIN file_rate_limiters


(* ------------------------------------------------------------------ *)
(* PTY resizing                                                        *)
(* ------------------------------------------------------------------ *)

\* Resizing: the wrapper of S1 registers and forwards resize frames; peer m1
\* subscribes to S1, unsubscribes and asks for sizes, while peer m2, whose
\* first frame subscribes to S1, may leave at any time.
NextResize ==
    \/ handle_connection("m1", <<"hello", "absent">>)
    \/ handle_connection("m2", <<"subscribe", "S1">>)
    \/ handle_connection("lo1", <<"register_pty", "S1">>)
    \/ \E a \in Remotes : MobileEntry(a)
    \/ \E a \in Remotes : SendWelcome(a, TRUE)
    \/ WrapperEntry("lo1")
    \/ Subscribe("m1", "S1")
    \/ pc["m2"] = "m_first" /\ Subscribe("m2", "S1")
    \/ Unsubscribe("m1", "S1")
    \/ UnsubscribeRestore("m1")
    \/ \E size \in Sizes : PtyResize("m1", "S1", size)
    \/ MobileClose("m2")
    \/ MobileExit("m2")
    \/ ForwardResize("lo1", TRUE)

SpecResize == Init /\ [][NextResize]_vars


\* The step is the handling of a PtyResize frame by a's handler.
HandlesPtyResize(a) ==
    /\ loc'[a].nreq = loc[a].nreq + 1
    /\ loc'[a].req[1] = "pty_resize"

\* The resize sinks after `size` is sent to the sink of session s.
Forwarded(s, size) == [resize_q EXCEPT ![sessions[s].owner] = Append(@, size)]

\* C3: a PtyResize other than (0,0) reaches the session's resize sink only
\* if the session's view count is greater than zero when it is handled (and
\* then it is that size that is sent); a PtyResize (0,0) for a registered
\* session is sent to the sink whatever the view count.
ResizeIsGated ==
    [][\A a \in Remotes :
          HandlesPtyResize(a) =>
              LET s == loc'[a].req[2]
                  size == loc'[a].req[3]
              IN /\ (size # <<0, 0>> /\ resize_q' # resize_q) =>
                        /\ Get(session_view_counts, s, 0) > 0
                        /\ s \in DOMAIN sessions
                        /\ resize_q' = Forwarded(s, size)
                 /\ (size = <<0, 0>> /\ s \in DOMAIN sessions) =>
                        resize_q' = Forwarded(s, size)]_vars

\* C3 witness: a real size went through while S1 had a viewer, and a (0,0)
\* sent when S1 had no viewer left is waiting in the sink behind it.
ResizeWentThrough ==
    /\ loc["m1"].req = <<"pty_resize", "S1", <<0, 0>>>>
    /\ Get(session_view_counts, "S1", 0) = 0
    /\ "S1" \in DOMAIN sessions
    /\ resize_q["lo1"] # <<>>
    /\ resize_q["lo1"][Len(resize_q["lo1"])] = <<0, 0>>
    /\ <<"resize", 80, 24>> \in {sock["lo1"][i] : i \in 1..Len(sock["lo1"])}


\* Restoring: peer m1 subscribes to S1 and unsubscribes, peer m2 subscribes
\* with its first frame, either may leave; the wrapper of S1 forwards resize
\* frames until a write to it fails, then unregisters.
NextRestore ==
    \/ handle_connection("m1", <<"hello", "absent">>)
    \/ handle_connection("m2", <<"subscribe", "S1">>)
    \/ handle_connection("lo1", <<"register_pty", "S1">>)
    \/ \E a \in Remotes : MobileEntry(a)
    \/ \E a \in Remotes : SendWelcome(a, TRUE)
    \/ WrapperEntry("lo1")
    \/ Subscribe("m1", "S1")
    \/ pc["m2"] = "m_first" /\ Subscribe("m2", "S1")
    \/ Unsubscribe("m1", "S1")
    \/ UnsubscribeRestore("m1")
    \/ \E a \in Remotes : MobileClose(a)
    \/ \E a \in Remotes : MobileExit(a)
    \/ \E ok \in BOOLEAN : ForwardResize("lo1", ok)
    \/ UnregisterSession("lo1")

\* A task that can run does run: the restore that follows a count's drop
\* (the handler is between two awaits of its own), the wrapper handler's
\* registration steps, and its select loop, which takes a ready resize_rx.
FairRestore ==
    /\ \A a \in Remotes :
          /\ WF_vars(UnsubscribeRestore(a))
          /\ WF_vars(CleanupUnwatch(a))
          /\ WF_vars(\E s \in SessionIds : CleanupRestore(a, s))
    /\ WF_vars(WrapperEntry("lo1"))
    /\ WF_vars(\E ok \in BOOLEAN : ForwardResize("lo1", ok))

SpecRestore == Init /\ [][NextRestore]_vars /\ FairRestore

\* Peer a's handler has brought the view count of s to zero and has its
\* restore_pty_size(s) still to do.
RestorePending(a, s) ==
    \/ pc[a] = "m_unsub_restore" /\ loc[a].sid = s
    \/ pc[a] \in {"m_unwatch", "m_restore"} /\ s \in loc[a].todo

\* Resize frames with cols = 0 and rows = 0 written to the wrapper so far.
ZerosReceived(w) ==
    Cardinality({i \in 1..Len(sock[w]) : sock[w][i] = <<"resize", 0, 0>>})

\* The wrapper handler has left its select loop.
WrapperLeft(w) == pc[w] \in {"w_unreg", "w_end_bcast", "w_end_persist", "w_done"}

\* C4: whenever the view count of a registered session drops to zero, by an
\* Unsubscribe or by a disconnect, the handler that dropped it goes on to
\* send (0,0) to the session's resize sink, and the wrapper then receives a
\* resize frame with cols = 0 and rows = 0 unless its connection ends first.
ZeroViewersRestores ==
    /\ [][\A s \in SessionIds :
            (/\ s \in DOMAIN sessions
             /\ Get(session_view_counts, s, 0) > 0
             /\ Get(session_view_counts', s, 0) = 0)
                => \E a \in Remotes : ~RestorePending(a, s) /\ RestorePending(a, s)']_vars
    /\ [][\A a \in Remotes, s \in SessionIds :
            (RestorePending(a, s) /\ ~RestorePending(a, s)' /\ s \in DOMAIN sessions)
                => resize_q' = Forwarded(s, <<0, 0>>)]_vars
    /\ [](ZerosReceived("lo1") <= MaxReq)
    /\ \A n \in 0..MaxReq :
          (/\ \E a \in Remotes : RestorePending(a, "S1")
           /\ "S1" \in DOMAIN sessions
           /\ ZerosReceived("lo1") = n)
              ~> (ZerosReceived("lo1") > n \/ WrapperLeft("lo1"))

\* C4 witness: the wrapper has received two (0,0) frames, the later one after
\* the disconnect of the last viewer.
RestoredTwice ==
    /\ ZerosReceived("lo1") = 2
    /\ pc["lo1"] = "w_loop"
    /\ \E a \in Remotes : pc[a] = "m_done"
    /\ Get(session_view_counts, "S1", 0) = 0


(* ------------------------------------------------------------------ *)
(* Wait detection                                                      *)
(* ------------------------------------------------------------------ *)

\* Waiting: the wrapper of S1 sends pty_output frames for which the detector
\* answers with no event or one of three events, while peer m1, connected
\* before the wrapper, sends input and tool approvals for S1.
NextWait ==
    \/ handle_connection("m1", <<"hello", "match">>)
    \/ pc["m1"] = "m_loop" /\ handle_connection("lo1", <<"register_pty", "S1">>)
    \/ MobileEntry("m1")
    \/ SendWelcome("m1", TRUE)
    \/ WrapperEntry("lo1")
    \/ SendInput("m1", "S1")
    \/ ToolApproval("m1", "S1", "yes")
    \/ ToolApprovalSend("m1")
    \/ ToolApprovalBroadcast("m1")
    \/ \E n \in NChars : PtyOutput("lo1", <<"a">>, n, NoWait)
    \/ \E ev \in WaitEvents : PtyOutput("lo1", <<"a">>, ClearThreshold, ev)
    \/ AppendScrollback("lo1")
    \/ UpdateTracker("lo1", "keep")
    \/ StoreWaiting("lo1")
    \/ BroadcastWaiting("lo1")
    \/ SpawnPush("lo1")
    \/ ClearOnOutput("lo1")
    \/ BroadcastCleared("lo1")
    \/ ForwardInput("lo1", TRUE)
    \/ ClearOnInput("lo1")

SpecWait == Init /\ [][NextWait]_vars


\* Maximal runs of consecutive detector events with the same
\* (wait_type, prompt_hash) in a session's log; with `split`, a clearing of
\* the waiting state ends the run it falls in.
RECURSIVE Runs(_, _, _)
Runs(log, prev, split) ==
    IF log = <<>> THEN 0
    ELSE LET e == Head(log)
         IN IF e[1] = "clear"
            THEN Runs(Tail(log), IF split THEN <<>> ELSE prev, split)
            ELSE IF <<e[2], e[3]>> = prev
                 THEN Runs(Tail(log), prev, split)
                 ELSE 1 + Runs(Tail(log), <<e[2], e[3]>>, split)

\* PTY handlers of session s that have stored a new waiting state and have
\* their broadcast (w_wfi) or their push (w_wfi, w_push) still to do.
Notifying(s, at) == Cardinality({a \in Loopbacks : loc[a].sid = s /\ pc[a] \in at})

\* Clearings of the waiting state of s by a ToolApproval.
ApprovalClears(s) ==
    Cardinality({i \in 1..Len(obs.evlog[s]) : obs.evlog[s][i] = <<"clear", "approval">>})

QueuesWaiting(a, s) ==
    /\ Len(client_q'[a]) = Len(client_q[a]) + 1
    /\ client_q'[a][Len(client_q'[a])][1] = "waiting_for_input"
    /\ client_q'[a][Len(client_q'[a])][2] = s

\* C6 (as claimed): between a SendInput to a waiting session and the
\* WaitingCleared that answers it, no WaitingForInput for that session is
\* queued to any peer.
ClearedBeforeWaitingAgain ==
    [][\A s \in SessionIds, a \in Remotes : obs.owed[s] => ~QueuesWaiting(a, s)]_vars


(* ------------------------------------------------------------------ *)
(* PTY output: scrollback and fan-out                                  *)
(* ------------------------------------------------------------------ *)

\* Streaming: the wrapper of S1 sends pty_output and binary frames; peer m1
\* connects at any time, receives PtyBytes (or lags) and asks for the
\* session history.
NextStream ==
    \/ handle_connection("m1", <<"hello", "match">>)
    \/ handle_connection("lo1", <<"register_pty", "S1">>)
    \/ MobileEntry("m1")
    \/ SendWelcome("m1", TRUE)
    \/ WrapperEntry("lo1")
    \/ \E bytes \in Chunks : PtyOutput("lo1", bytes, 0, NoWait)
    \/ AppendScrollback("lo1")
    \/ BinaryFrame("lo1", <<"b">>)
    \/ PtyRecv("m1", TRUE)
    \/ \E max \in {-1, 1} : GetSessionHistory("m1", "S1", max, TRUE)

SpecStream == Init /\ [][NextStream]_vars


\* C7: after each ingested pty_output chunk a session's scrollback is the
\* last min(n, S_MAX) bytes, in stream order, of the n bytes ingested so
\* far; it is never longer than S_MAX.
ScrollbackIsStreamTail ==
    \A s \in DOMAIN sessions :
        /\ Len(sessions[s].scrollback) <= ScrollbackMax
        /\ Len(sessions[s].scrollback) =
              (IF Len(obs.stream[s]) < ScrollbackMax THEN Len(obs.stream[s]) ELSE ScrollbackMax)
        /\ sessions[s].scrollback = LastN(obs.stream[s], ScrollbackMax)

\* C7 witness: two chunks of two bytes were ingested and the first chunk
\* was trimmed away.
ScrollbackTrimmed ==
    /\ "S1" \in DOMAIN sessions
    /\ obs.stream["S1"] = <<"a", "b", "b", "a">>
    /\ sessions["S1"].scrollback = <<"b", "a">>

\* x is a subsequence of y.
RECURSIVE IsSubseq(_, _)
IsSubseq(x, y) ==
    IF x = <<>> THEN TRUE
    ELSE IF y = <<>> THEN FALSE
    ELSE IF Head(x) = Head(y) THEN IsSubseq(Tail(x), Tail(y))
    ELSE IsSubseq(x, Tail(y))

\* The PtyBytes payloads written to peer a for session s, in order.
RECURSIVE PtyBytesTo(_, _)
PtyBytesTo(frames, s) ==
    IF frames = <<>> THEN <<>>
    ELSE LET f == Head(frames)
         IN IF f[1] = "pty_bytes" /\ f[2] = s
            THEN <<f[3]>> \o PtyBytesTo(Tail(frames), s)
            ELSE PtyBytesTo(Tail(frames), s)

\* The chunks emitted on pty_broadcast for session s, in order.
RECURSIVE Emitted(_, _)
Emitted(sent, s) ==
    IF sent = <<>> THEN <<>>
    ELSE IF Head(sent)[1] = s THEN <<Head(sent)[2]>> \o Emitted(Tail(sent), s)
    ELSE Emitted(Tail(sent), s)

\* The step is a's pty_rx.recv() returning Lagged.
Lags(a) ==
    /\ pc[a] = "m_loop"
    /\ pty_pos'[a] # pty_pos[a]
    /\ Len(hub) - pty_pos[a] > BroadcastCap

\* C8: the PtyBytes a peer has received for a session are a subsequence, in
\* emission order, of the chunks the wrapper emitted; a peer that has
\* overflowed the broadcast buffer moves past the chunks it missed and stays
\* connected and registered.
PtyBytesInOrder ==
    /\ [](\A a \in Remotes, s \in SessionIds :
             IsSubseq(PtyBytesTo(sock[a], s), Emitted(hub, s)))
    /\ [][\A a \in Remotes :
             Lags(a) => /\ pc'[a] = "m_loop"
                        /\ pty_pos'[a] > pty_pos[a]
                        /\ sock'[a] = sock[a]
                        /\ a \in mobile_clients']_vars

\* C8 witness: a peer registered before the session existed has missed the
\* first of two different chunks and received the second.
SkippedAChunk ==
    /\ Len(sock["m1"]) >= 2
    /\ sock["m1"][2] = <<"sessions", {}>>
    /\ Len(hub) = 2
    /\ hub[1][2] # hub[2][2]
    /\ PtyBytesTo(sock["m1"], "S1") = <<hub[2][2]>>
    /\ pc["m1"] = "m_loop"


(* ------------------------------------------------------------------ *)
(* Connection dispatch and the mobile entry sequence                   *)
(* ------------------------------------------------------------------ *)

\* First frames of the remote peer m1 and of the loopback peer lo1.
RemoteFirstFrames ==
    {<<"hello", "match">>, <<"hello", "mismatch">>, <<"hello", "absent">>,
     <<"register_pty", "S1">>, <<"ping">>, <<"garbage">>, <<"nontext">>}
LoopbackFirstFrames == {<<"register_pty", "S1">>, <<"register_pty", "">>}

\* Connecting: the remote peer m1 and the loopback peer lo1 open a connection
\* with any of their first frames.  The wrapper of S2 has registered and
\* announced a prompt before they arrive; the wrapper of S1 does so while m1
\* runs its entry sequence and its loop.
Turn(w) == w = "lo2" => (pc["lo1"] = "new" /\ pc["m1"] = "new")

NextConn ==
    \/ \E frame \in RemoteFirstFrames : handle_connection("m1", frame)
    \/ \E frame \in LoopbackFirstFrames : handle_connection("lo1", frame)
    \/ Turn("lo2") /\ handle_connection("lo2", <<"register_pty", "S2">>)
    \/ MobileEntry("m1")
    \/ SendWelcome("m1", TRUE)
    \/ \E s \in SessionIds : WaitingStatesSend("m1", s, TRUE)
    \/ Ping("m1", TRUE)
    \/ PtyRecv("m1", TRUE)
    \/ Queued("m1", TRUE)
    \/ \E w \in Loopbacks : Turn(w) /\ WrapperEntry(w)
    \/ \E w \in Loopbacks, ev \in {e \in WaitEvents : e.prompt_hash = 2} :
          Turn(w) /\ loc[w].nout = 0 /\ PtyOutput(w, <<"a">>, ClearThreshold, ev)
    \/ \E w \in Loopbacks : Turn(w) /\ AppendScrollback(w)
    \/ \E w \in Loopbacks : Turn(w) /\ UpdateTracker(w, "keep")
    \/ \E w \in Loopbacks : Turn(w) /\ StoreWaiting(w)
    \/ \E w \in Loopbacks : Turn(w) /\ BroadcastWaiting(w)
    \/ \E w \in Loopbacks : Turn(w) /\ SpawnPush(w)

SpecConn == Init /\ [][NextConn]_vars

\* The connection's first frame asked for a wrapper registration.
AsksToRegister(a) == first[a][1] = "register_pty"

\* The sessions a connection owns.
Owned(a) == {s \in DOMAIN sessions : sessions[s].owner = a}

\* C9: every session in the map was inserted by a loopback connection whose
\* first frame is register_pty with that, non-empty, session id.  A
\* register_pty from a non-loopback address closes the connection at once,
\* and one from a loopback address with an empty or missing session id is
\* refused; neither owns a session nor is sent an acknowledgement or any
\* other frame.
OnlyLoopbackRegisters ==
    /\ \A s \in DOMAIN sessions :
        /\ s # ""
        /\ is_loopback(sessions[s].owner)
        /\ first[sessions[s].owner] = <<"register_pty", s>>
    /\ \A a \in Addrs :
        /\ (AsksToRegister(a) /\ ~is_loopback(a)) => pc[a] = "closed"
        /\ (AsksToRegister(a) /\ is_loopback(a) /\ first[a][2] = "")
              => pc[a] \in {"w_register", "w_refused"}
        /\ (AsksToRegister(a) /\ (~is_loopback(a) \/ first[a][2] = ""))
              => (sock[a] = <<>> /\ Owned(a) = {} /\ loc[a].sid = "")

\* C9 witness: the remote register_pty was closed while the loopback one
\* registered S1 and was acknowledged.
RemoteRegisterClosed ==
    /\ first["m1"] = <<"register_pty", "S1">>
    /\ pc["m1"] = "closed"
    /\ "S1" \in DOMAIN sessions
    /\ sessions["S1"].owner = "lo1"
    /\ sock["lo1"] # <<>>

\* The connection runs handle_mobile_client.
IsMobile(a) == first[a][1] \notin {"none", "nontext", "register_pty"}

\* Positions of handle_mobile_client up to the end of send_waiting_states.
InEntry(a) ==
    pc[a] \in {"m_register", "m_welcome", "m_sessions", "m_sessions_send",
               "m_waiting", "m_waiting_send"}

\* The sessions named by the frames a peer was sent after its second.
Announced(frames) == {frames[i][2] : i \in 3..Len(frames)}

\* C10: whatever its first frame and pairing token, a mobile connection is
\* sent Welcome with authenticated = true first and the sessions list second,
\* and until send_waiting_states has returned every later frame is a
\* WaitingForInput of a distinct session that is waiting; when it returns
\* the connection has been sent exactly those two frames and one
\* WaitingForInput per waiting session, so no PtyBytes, queued broadcast or
\* reply to the first frame precedes them.
WelcomeSequenceFirst ==
    /\ [](\A a \in Addrs : IsMobile(a) =>
            /\ Len(sock[a]) >= 1 => sock[a][1] = <<"welcome", TRUE>>
            /\ Len(sock[a]) >= 2 => sock[a][2][1] = "sessions"
            /\ InEntry(a) =>
                /\ \A i \in 3..Len(sock[a]) :
                      /\ sock[a][i][1] = "waiting_for_input"
                      /\ sock[a][i][2] \in WaitingSessions
                /\ \A i, j \in 3..Len(sock[a]) :
                      sock[a][i][2] = sock[a][j][2] => i = j)
    /\ [][\A a \in Addrs :
            (InEntry(a) /\ pc'[a] = "m_first") =>
                /\ Len(sock'[a]) = 2 + Cardinality(WaitingSessions)
                /\ Announced(sock'[a]) = WaitingSessions
                /\ \A i \in 3..Len(sock'[a]) : sock'[a][i][1] = "waiting_for_input"]_vars

\* C10 witness: a peer whose token mismatched was welcomed as authenticated,
\* sent the sessions list and a WaitingForInput for S1 and for S2, and only
\* then a chunk of the live stream.
MismatchedPeerWelcomed ==
    /\ first["m1"] = <<"hello", "mismatch">>
    /\ Len(sock["m1"]) >= 5
    /\ sock["m1"][1] = <<"welcome", TRUE>>
    /\ sock["m1"][2][1] = "sessions"
    /\ \A i \in 3..4 : sock["m1"][i][1] = "waiting_for_input"
    /\ Announced(SubSeq(sock["m1"], 1, 4)) = {"S1", "S2"}
    /\ sock["m1"][5][1] = "pty_bytes"


(* ------------------------------------------------------------------ *)
(* Session lifecycle: registration and teardown                        *)
(* ------------------------------------------------------------------ *)

\* Two loopback wrappers register, lo1 as S1 and lo2 as S1 or S2, while the
\* mobile peer m1 connects; the acknowledgement may fail to be written; a
\* wrapper in its loop ends with a session_ended frame or a Close.
NextSession ==
    \/ handle_connection("m1", <<"hello", "match">>)
    \/ MobileEntry("m1")
    \/ SendWelcome("m1", TRUE)
    \/ handle_connection("lo1", <<"register_pty", "S1">>)
    \/ \E s \in SessionIds : handle_connection("lo2", <<"register_pty", s>>)
    \/ \E w \in Loopbacks : RegisterSession(w, "numbered")
    \/ \E w \in Loopbacks : broadcast_sessions_update(w)
    \/ \E w \in Loopbacks : persist_sessions_to_file(w)
    \/ \E w \in Loopbacks, ok \in BOOLEAN : SendAck(w, ok)
    \/ \E w \in Loopbacks, code \in ExitCodes : WrapperEnds(w, code)
    \/ \E w \in Loopbacks : UnregisterSession(w)

SpecSession == Init /\ [][NextSession]_vars

\* The frame queued last to a mobile peer.
LastQueued(q, m) == q[m][Len(q[m])]

\* handle_pty_session's broadcast_sessions_update after the insert.
AnnouncesRegistration(w) == pc[w] = "w_bcast" /\ pc'[w] = "w_persist"

\* C11: a registration with a non-empty session_id inserts the session with
\* no waiting state and an empty scrollback; the broadcast that follows queues
\* to every connected mobile peer a Sessions snapshot that lists the session;
\* and the wrapper is sent {type: registered} only after that broadcast.
RegistrationIsAnnounced ==
    /\ [][\A w \in Loopbacks :
            (pc[w] = "w_register" /\ pc'[w] = "w_bcast") =>
                /\ first[w][2] \in DOMAIN sessions'
                /\ sessions'[first[w][2]].waiting = NoWait
                /\ sessions'[first[w][2]].scrollback = <<>>]_vars
    /\ [][\A w \in Loopbacks :
            AnnouncesRegistration(w) =>
                \A m \in mobile_clients :
                    /\ client_q'[m] # <<>>
                    /\ LastQueued(client_q', m)[1] = "sessions"
                    /\ loc[w].sid \in LastQueued(client_q', m)[2]]_vars
    /\ [](\A w \in Loopbacks :
            pc[w] \in {"w_register", "w_bcast", "w_persist", "w_ack"} => sock[w] = <<>>)


\* handle_pty_session has returned.
WrapperReturned(w) == pc[w] \in {"w_done", "w_failed"}

\* C12: once the handler of a registered wrapper has returned, the registry
\* holds no session of that wrapper; the teardown queues
\* SessionEnded{session_id, exit_code} to every connected mobile peer and the
\* broadcast after it queues a Sessions snapshot without the session.
EndedSessionIsRemoved ==
    /\ [](\A w \in Loopbacks : WrapperReturned(w) => Owned(w) = {})
    /\ [][\A w \in Loopbacks :
            (pc[w] = "w_unreg" /\ pc'[w] = "w_end_bcast") =>
                \A m \in mobile_clients :
                    LastQueued(client_q', m) =
                        <<"session_ended", loc[w].sid, loc[w].exit_code>>]_vars
    /\ [][\A w \in Loopbacks :
            (pc[w] = "w_end_bcast" /\ pc'[w] = "w_end_persist") =>
                \A m \in mobile_clients :
                    /\ LastQueued(client_q', m)[1] = "sessions"
                    /\ loc[w].sid \notin LastQueued(client_q', m)[2]]_vars


(* ------------------------------------------------------------------ *)
(* Tool approvals                                                      *)
(* ------------------------------------------------------------------ *)

\* Prompts the detector may report, one of them with no approval model.
ApprovalEvents ==
    {[wait_type |-> "tool_approval", prompt_hash |-> 1, approval_model |-> m] :
        m \in {"yes_no", "none"}}

\* The mobile peer m1 is in its loop when the wrapper of S1 registers, as an
\* arrow-model CLI or as one without approval model; the wrapper reports
\* prompts and may end; m1 answers with any response string.
NextApproval ==
    \/ handle_connection("m1", <<"hello", "match">>)
    \/ MobileEntry("m1")
    \/ SendWelcome("m1", TRUE)
    \/ pc["m1"] = "m_loop" /\ handle_connection("lo1", <<"register_pty", "S1">>)
    \/ \E model \in {"arrow", "none"} : RegisterSession("lo1", model)
    \/ broadcast_sessions_update("lo1")
    \/ persist_sessions_to_file("lo1")
    \/ SendAck("lo1", TRUE)
    \/ \E ev \in ApprovalEvents : PtyOutput("lo1", <<"a">>, ClearThreshold, ev)
    \/ AppendScrollback("lo1")
    \/ UpdateTracker("lo1", "keep")
    \/ StoreWaiting("lo1")
    \/ BroadcastWaiting("lo1")
    \/ SpawnPush("lo1")
    \/ \E response \in Responses : ToolApproval("m1", "S1", response)
    \/ ToolApprovalSend("m1")
    \/ ToolApprovalBroadcast("m1")
    \/ WrapperEnds("lo1", 0)
    \/ UnregisterSession("lo1")

SpecApproval == Init /\ [][NextApproval]_vars

\* The approval model a ToolApproval for session s goes by.
ModelOf(s) ==
    IF sessions[s].waiting # NoWait THEN sessions[s].waiting.approval_model
    ELSE sessions[s].default_model

\* The lookup block of a ToolApproval for s runs in this step.
LooksUpApproval(a, s) ==
    /\ pc[a] \in {"m_first", "m_loop"}
    /\ loc'[a].req # loc[a].req \/ loc'[a].nreq # loc[a].nreq
    /\ loc'[a].req[1] = "tool_approval"
    /\ loc'[a].req[2] = s

\* C13: a ToolApproval for a registered session whose approval model maps
\* the response to bytes goes on to send exactly those bytes to the session's
\* input sink, clears the waiting state and then queues WaitingCleared to
\* every mobile peer; when the model is none or the response is not one of
\* yes / yes_always / no, the request ends at the lookup with the input sink,
\* the waiting state and the mobile queues as they were.
ApprovalSendsMappedBytes ==
    /\ [][\A a \in Remotes, s \in DOMAIN sessions :
            LooksUpApproval(a, s) =>
                LET bytes == approval_input_for(ModelOf(s), loc'[a].req[3])
                    known == /\ ModelOf(s) # "none"
                             /\ loc'[a].req[3] \in {"yes", "yes_always", "no"}
                IN /\ known <=> bytes # ""
                   /\ known => (pc'[a] = "m_approve" /\ loc'[a].chunk = <<bytes>>)
                   /\ ~known => pc'[a] = "m_loop"
                   /\ <<input_q, sessions, client_q>>' = <<input_q, sessions, client_q>>]_vars
    /\ [][\A a \in Remotes :
            (pc[a] = "m_approve" /\ pc'[a] # "m_approve" /\ loc[a].sid \in DOMAIN sessions) =>
                /\ input_q' = [input_q EXCEPT ![sessions[loc[a].sid].owner] =
                                  Append(@, <<"approval", loc[a].chunk[1]>>)]
                /\ sessions'[loc[a].sid].waiting = NoWait
                /\ pc'[a] = "m_approve_bcast"]_vars
    /\ [][\A a \in Remotes :
            (pc[a] = "m_approve_bcast" /\ pc'[a] # "m_approve_bcast") =>
                \A m \in mobile_clients :
                    LastQueued(client_q', m) = <<"waiting_cleared", loc[a].sid>>]_vars
    /\ [][((\E w \in Addrs : Len(input_q'[w]) > Len(input_q[w]))
             \/ (\E m \in Addrs :
                    /\ Len(client_q'[m]) > Len(client_q[m])
                    /\ LastQueued(client_q', m)[1] = "waiting_cleared"))
                => \E a \in Remotes :
                      /\ pc[a] \in {"m_approve", "m_approve_bcast"}
                      /\ pc'[a] # pc[a]]_vars

\* C13 witness: the prompt's yes_no model, not the arrow default of the CLI,
\* mapped yes_always to "y\n"; the bytes are in the wrapper's input queue, the
\* waiting state is cleared and WaitingCleared was queued last.
ApprovalCleared ==
    /\ loc["m1"].req = <<"tool_approval", "S1", "yes_always">>
    /\ pc["m1"] = "m_loop"
    /\ "S1" \in DOMAIN sessions
    /\ sessions["S1"].default_model = "arrow"
    /\ sessions["S1"].waiting = NoWait
    /\ input_q["lo1"] = <<<<"approval", "y\n">>>>
    /\ client_q["m1"] # <<>>
    /\ LastQueued(client_q, "m1") = <<"waiting_cleared", "S1">>


\* The mapping applied to every pair: the wrapper of S1 registers as a CLI of
\* any approval model and reports no prompt, and m1 answers with any response
\* string.
NextMapping ==
    \/ handle_connection("m1", <<"hello", "match">>)
    \/ MobileEntry("m1")
    \/ SendWelcome("m1", TRUE)
    \/ handle_connection("lo1", <<"register_pty", "S1">>)
    \/ \E model \in Models : RegisterSession("lo1", model)
    \/ broadcast_sessions_update("lo1")
    \/ persist_sessions_to_file("lo1")
    \/ SendAck("lo1", TRUE)
    \/ \E response \in Responses : ToolApproval("m1", "S1", response)
    \/ ToolApprovalSend("m1")
    \/ ToolApprovalBroadcast("m1")

SpecMapping == Init /\ [][NextMapping]_vars

\* C14: the bytes approval_input_for yields for the session's model and the
\* request's response are those of the approval table: numbered gives
\* "1\n" / "2\n" / "3\n", yes_no gives "y\n" / "y\n" / "n\n", arrow gives
\* "\r", ESC[C "\r" and ESC[C ESC[C "\r" for yes / yes_always / no; model
\* none and any other response give no input ("").
MappingFollowsTable ==
    [][LET table ==
             [numbered |-> [yes |-> "1\n", yes_always |-> "2\n", no |-> "3\n", maybe |-> ""],
              yes_no |-> [yes |-> "y\n", yes_always |-> "y\n", no |-> "n\n", maybe |-> ""],
              arrow |-> [yes |-> "\r", yes_always |-> "ESC[C\r", no |-> "ESC[CESC[C\r",
                         maybe |-> ""],
              none |-> [yes |-> "", yes_always |-> "", no |-> "", maybe |-> ""]]
       IN \A a \in Remotes, s \in DOMAIN sessions :
            LooksUpApproval(a, s) =>
                loc'[a].chunk = <<table[ModelOf(s)][loc'[a].req[3]]>>]_vars

\* C14 witness: an arrow-model session was answered "no" and the lookup
\* yielded two cursor-right sequences and a carriage return.
ArrowNoMapped ==
    /\ pc["m1"] = "m_approve"
    /\ sessions["S1"].default_model = "arrow"
    /\ loc["m1"].req = <<"tool_approval", "S1", "no">>
    /\ loc["m1"].chunk = <<"ESC[CESC[C\r">>


(* ------------------------------------------------------------------ *)
(* PathValidator (filesystem/security.rs)                              *)
(* ------------------------------------------------------------------ *)

\* Path::is_absolute, contains_parent_dir, Path::parent, Path::file_name.
is_absolute(p) == Len(p) > 0 /\ p[1] = "/"
contains_parent_dir(p) == \E i \in 1..Len(p) : p[i] = ".."
Parent(p) == SubSeq(p, 1, Len(p) - 1)
FileName(p) == p[Len(p)]
IsPrefix(q, p) == Len(q) <= Len(p) /\ SubSeq(p, 1, Len(q)) = q

\* Symlinks followed while one path is resolved (the kernel's limit is 40).
MaxLinks == 2

\* Path::canonicalize on tree d: walks the components below cur, replacing
\* every symlink by its resolved target; <<>> is the error (a missing
\* component, a file used as a directory, too many links).
RECURSIVE Walk(_, _, _, _)
Walk(d, cur, rest, fuel) ==
    IF rest = <<>> THEN cur
    ELSE LET nxt == Append(cur, Head(rest))
         IN IF d[cur].kind # "dir" \/ nxt \notin DOMAIN d THEN <<>>
            ELSE IF d[nxt].kind # "link" THEN Walk(d, nxt, Tail(rest), fuel)
            ELSE IF fuel = 0 THEN <<>>
            ELSE LET t == Walk(d, Root, Tail(d[nxt].target), fuel - 1)
                 IN IF t = <<>> THEN <<>> ELSE Walk(d, t, Tail(rest), fuel)

canonicalize(d, p) == IF is_absolute(p) THEN Walk(d, Root, Tail(p), MaxLinks) ELSE <<>>

\* Path::exists, is_file, is_dir (all follow symlinks) and the file type of
\* symlink_metadata (which does not follow the last component).
Exists(d, p) == canonicalize(d, p) # <<>>
IsFile(d, p) == Exists(d, p) /\ d[canonicalize(d, p)].kind = "file"
IsDir(d, p) == Exists(d, p) /\ d[canonicalize(d, p)].kind = "dir"
IsSymlink(d, p) ==
    /\ Len(p) > 1
    /\ Exists(d, Parent(p))
    /\ Append(canonicalize(d, Parent(p)), FileName(p)) \in DOMAIN d
    /\ d[Append(canonicalize(d, Parent(p)), FileName(p))].kind = "link"

\* Results of the validator and of the file operations.
FsOk(v) == [ok |-> TRUE, val |-> v, err |-> "none"]
FsErr(e) == [ok |-> FALSE, val |-> <<>>, err |-> e]

\* glob_match of a read-only pattern "d/**" (a path below d) and of a
\* denied pattern "**/n" (a path whose file name is n).
is_writable(cfg, p) ==
    ~\E r \in cfg.read_only_patterns : IsPrefix(r, p) /\ Len(p) > Len(r)
is_denied(cfg, p) == Len(p) > 1 /\ FileName(p) \in cfg.denied_patterns

\* Jail::contains for some jail; a jail is made of every allowed root that
\* canonicalizes.
ensure_allowed(d, cfg, p) ==
    \E root \in cfg.allowed_roots : Exists(d, root) /\ IsPrefix(canonicalize(d, root), p)

\* contains_symlink: some prefix of the path is a symlink.
contains_symlink(d, p) == \E i \in 1..Len(p) : IsSymlink(d, SubSeq(p, 1, i))

\* The checks both entry points make on a canonical path.
CheckCanonical(d, cfg, canonical) ==
    IF ~ensure_allowed(d, cfg, canonical) THEN FsErr("permission_denied")
    ELSE IF is_denied(cfg, canonical) THEN FsErr("permission_denied")
    ELSE IF ~cfg.follow_symlinks /\ contains_symlink(d, canonical)
         THEN FsErr("permission_denied")
    ELSE FsOk(canonical)

\* A validation that applies its checks to the path as requested and
\* returns the canonical path.
validate_existing_raw(d, cfg, p) ==
    IF ~is_absolute(p) \/ contains_parent_dir(p) THEN FsErr("path_traversal")
    ELSE IF canonicalize(d, p) = <<>> THEN FsErr("io_error")
    ELSE IF ~CheckCanonical(d, cfg, p).ok THEN CheckCanonical(d, cfg, p)
    ELSE FsOk(canonicalize(d, p))

\* PathValidator::validate_existing
validate_existing(d, cfg, p) ==
    IF ~is_absolute(p) \/ contains_parent_dir(p) THEN FsErr("path_traversal")
    ELSE IF canonicalize(d, p) = <<>> THEN FsErr("io_error")
    ELSE CheckCanonical(d, cfg, canonicalize(d, p))

\* find_existing_ancestor: the longest prefix of the path that exists.
find_existing_ancestor(d, p) ==
    LET n == CHOOSE i \in 1..Len(p) :
                /\ Exists(d, SubSeq(p, 1, i))
                /\ \A j \in (i + 1)..Len(p) : ~Exists(d, SubSeq(p, 1, j))
    IN SubSeq(p, 1, n)

\* PathValidator::resolve_new_path
resolve_new_path(d, cfg, p, allow_missing_parents) ==
    IF ~is_absolute(p) \/ contains_parent_dir(p) THEN FsErr("path_traversal")
    ELSE IF Len(p) = 1 THEN FsErr("path_traversal")
    ELSE IF \E i \in 1..(Len(p) - 1) : IsFile(d, SubSeq(p, 1, i))
         THEN FsErr("not_a_directory")
    ELSE IF ~allow_missing_parents /\ ~Exists(d, Parent(p)) THEN FsErr("not_found")
    ELSE LET anc == find_existing_ancestor(d, p)
             checked == CheckCanonical(d, cfg, canonicalize(d, anc))
             resolved == canonicalize(d, anc) \o SubSeq(p, Len(anc) + 1, Len(p))
         IN IF ~checked.ok THEN checked
            ELSE IF is_denied(cfg, resolved) THEN FsErr("permission_denied")
            ELSE FsOk(resolved)

(* ------------------------------------------------------------------ *)
(* The token bucket of filesystem requests                             *)
(* ------------------------------------------------------------------ *)

\* REQUESTS_PER_SECOND and BURST_SIZE of check_fs_rate_limit.
RequestsPerSecond == 100
BurstSize == 50

\* Time is counted in ticks of 0.1 ms and tokens in hundredths of a token, so
\* that elapsed * requests_per_second is ticks * RequestsPerSecond / 100
\* hundredths, one request costs 100 and the bucket holds BurstSize * 100.
Min(x, y) == IF x < y THEN x ELSE y

\* RateLimiter::new at time now.
RateLimiterNew(now) == [tokens |-> BurstSize * 100, last_refill |-> now]

\* The refill at the head of RateLimiter::allow.
Refill(l, now) ==
    IF now > l.last_refill
    THEN [tokens |-> Min(l.tokens + ((now - l.last_refill) * RequestsPerSecond) \div 100,
                         BurstSize * 100),
          last_refill |-> now]
    ELSE l

\* An allow whose retry_after is rounded down.
allow_round_down(l, now) ==
    LET r == Refill(l, now)
    IN IF r.tokens >= 100
       THEN [limiter |-> [r EXCEPT !.tokens = @ - 100], ok |-> TRUE, retry |-> 0, had |-> r.tokens]
       ELSE [limiter |-> r, ok |-> FALSE,
             retry |-> ((100 - r.tokens) * 10) \div RequestsPerSecond, had |-> r.tokens]

\* RateLimiter::allow: Ok, or Err(retry_after) in milliseconds with
\* retry_after = ceil(needed / requests_per_second * 1000).
allow(l, now) ==
    LET r == Refill(l, now)
    IN IF r.tokens >= 100
       THEN [limiter |-> [r EXCEPT !.tokens = @ - 100], ok |-> TRUE, retry |-> 0, had |-> r.tokens]
       ELSE [limiter |-> r, ok |-> FALSE,
             retry |-> ((100 - r.tokens) * 10 + RequestsPerSecond - 1) \div RequestsPerSecond,
             had |-> r.tokens]

\* A filesystem request (ListDirectory): check_fs_rate_limit on the peer's
\* bucket, created full on first use; a denial is answered with
\* operation_error rate_limited{retry_after_ms}, otherwise the listing follows.
ListDirectory(a) ==
    /\ pc[a] = "m_loop"
    /\ Len(obs.fs) < MaxFs
    /\ WLockFree
    /\ LET out == allow(Get(file_rate_limiters, a, RateLimiterNew(obs.clock)), obs.clock)
       IN /\ file_rate_limiters' = Put(file_rate_limiters, a, out.limiter)
          /\ sock' = [sock EXCEPT ![a] =
                Append(@, IF out.ok THEN <<"directory_listing">>
                          ELSE <<"operation_error", "list_directory", "rate_limited",
                                 out.retry>>)]
          /\ obs' = [obs EXCEPT !.fs = Append(@, [at |-> obs.clock, ok |-> out.ok,
                                                  retry |-> out.retry, had |-> out.had])]
    /\ UNCHANGED <<pc, first, loc, regVars, viewVars, file_watch_subscriptions,
                   file_watch_counts, watchers, chanVars, persisted, diskVars, rlock>>

\* Instant::now() moves on by d ticks.
Tick(d) ==
    /\ Len(obs.fs) >= BurstPrefix
    /\ obs.ticks < MaxTicks
    /\ obs' = [obs EXCEPT !.clock = @ + d, !.ticks = @ + 1]
    /\ UNCHANGED <<connVars, regVars, viewVars, watchVars, chanVars, persisted, diskVars, rlock>>

\* One peer sends filesystem requests, the first BurstPrefix of them within
\* one tick; later the clock moves by 0.1 ms, 3.3 ms, 10 ms or 600 ms.
NextBucket ==
    \/ handle_connection("m1", <<"hello", "match">>)
    \/ MobileEntry("m1")
    \/ SendWelcome("m1", TRUE)
    \/ ListDirectory("m1")
    \/ \E d \in {1, 33, 100, 6000} : Tick(d)

SpecBucket == Init /\ [][NextBucket]_vars

\* The requests i..j of the log that were allowed.
Granted(i, j) == {k \in i..j : obs.fs[k].ok}

\* C15, stated for the latest request of the log (every earlier request was
\* the latest in an earlier state): from any request to the latest, t seconds
\* apart, at most burst + rps * t requests are allowed; with no time elapsed
\* the first BurstSize requests are allowed and every later one is denied; a
\* denial reports the least whole number of milliseconds after which the
\* refill reaches one token, i.e. (deficit / rps) * 1000 rounded up, which is
\* 10 for an empty bucket; and the tokens stay within [0, burst].
BucketBoundsRequests ==
    /\ \A i \in 1..Len(obs.fs) :
          LET j == Len(obs.fs)
          IN Cardinality(Granted(i, j)) * 10000
                <= BurstSize * 10000 + RequestsPerSecond * (obs.fs[j].at - obs.fs[i].at)
    /\ \A k \in {Len(obs.fs)} \ {0} :
          /\ obs.fs[k].at = 0 => (obs.fs[k].ok <=> k <= BurstSize)
          /\ ~obs.fs[k].ok =>
                /\ obs.fs[k].had * 10 + obs.fs[k].retry * RequestsPerSecond >= 1000
                /\ obs.fs[k].had * 10 + (obs.fs[k].retry - 1) * RequestsPerSecond < 1000
                /\ obs.fs[k].had = 0 => obs.fs[k].retry = 10
    /\ \A a \in DOMAIN file_rate_limiters :
          /\ file_rate_limiters[a].tokens >= 0
          /\ file_rate_limiters[a].tokens <= BurstSize * 100

\* C15 witness: the 51st request of a burst was denied with 10 ms, and after
\* 3.3 ms a request was denied with the 6.7 ms still missing rounded up to 7.
BurstDeniedThenPartial ==
    /\ Len(obs.fs) > BurstSize + 1
    /\ obs.fs[BurstSize + 1] = [at |-> 0, ok |-> FALSE, retry |-> 10, had |-> 0]
    /\ \E k \in 1..Len(obs.fs) :
          obs.fs[k] = [at |-> 33, ok |-> FALSE, retry |-> 7, had |-> 33]

(* ------------------------------------------------------------------ *)
(* Path validation                                                     *)
(* ------------------------------------------------------------------ *)

\* The trees and configurations a run starts from.
Disks == {HostTree(lt, r, o) : lt \in {<<>>, RealDir, EtcDir}, r \in BOOLEAN, o \in BOOLEAN}
Configs == {FileSystemConfig(f) : f \in BOOLEAN}

\* The daemon at start on some tree of D under some configuration of C.
InitWith(D, C) ==
    /\ pc = [a \in Addrs |-> "new"]
    /\ first = [a \in Addrs |-> <<"none">>]
    /\ loc = [a \in Addrs |-> LocInit]
    /\ sock = [a \in Addrs |-> <<>>]
    /\ sessions = EmptyMap
    /\ mobile_clients = {}
    /\ push_tokens = <<>>
    /\ mobile_views = EmptyMap
    /\ session_view_counts = EmptyMap
    /\ file_watch_subscriptions = EmptyMap
    /\ file_watch_counts = EmptyMap
    /\ file_rate_limiters = EmptyMap
    /\ watchers = {}
    /\ client_q = [a \in Addrs |-> <<>>]
    /\ hub = <<>>
    /\ pty_pos = [a \in Addrs |-> 0]
    /\ input_q = [a \in Addrs |-> <<>>]
    /\ resize_q = [a \in Addrs |-> <<>>]
    /\ persisted = {}
    /\ rlock = {}
    /\ obs = ObsInit
    /\ disk \in D
    /\ config \in C
    /\ search = NoSearch
    /\ fwd = NoForwarders

InitFs == InitWith(Disks, Configs)

\* Paths a request can name: files below the allowed root (directly, through
\* the symlink, in the read-only directory, with a denied name, below a
\* missing directory, below a file), a directory, the root, a file outside
\* the allowed root, a relative path and paths with a ".." component.
FsPaths ==
    {RealDir \o <<"n.txt">>, LinkPath \o <<"n.txt">>, RoDir \o <<"n.txt">>,
     RealDir \o <<"n.key">>, <<"/", "home", "new", "n.txt">>,
     RealDir \o <<"n.txt", "x">>, RealDir, Root, EtcDir \o <<"n.txt">>,
     <<"home", "real", "n.txt">>, <<"/", "home", "..", "etc", "n.txt">>,
     <<"/", "home", "real", "..", "real", "n.txt">>}

\* One call of validate_existing / resolve_new_path, with its result.
ValidateExisting(p) ==
    /\ Len(obs.ops) < MaxOps
    /\ obs' = [obs EXCEPT !.ops =
                  Append(@, [op |-> "validate_existing", path |-> p,
                             res |-> validate_existing(disk, config, p)])]
    /\ UNCHANGED <<connVars, regVars, viewVars, watchVars, chanVars, persisted, diskVars, rlock>>

ResolveNewPath(p, allow_missing_parents) ==
    /\ Len(obs.ops) < MaxOps
    /\ obs' = [obs EXCEPT !.ops =
                  Append(@, [op |-> "resolve_new_path", path |-> p,
                             res |-> resolve_new_path(disk, config, p, allow_missing_parents)])]
    /\ UNCHANGED <<connVars, regVars, viewVars, watchVars, chanVars, persisted, diskVars, rlock>>

NextValidate ==
    \/ \E p \in FsPaths : ValidateExisting(p)
    \/ \E p \in FsPaths, amp \in BOOLEAN : ResolveNewPath(p, amp)

SpecValidate == InitFs /\ [][NextValidate]_vars

\* C17: a path validate_existing accepts is returned in canonical form and
\* lies under a configured allowed root; a path that is not absolute or has
\* a ".." component is rejected with path_traversal by validate_existing and
\* by resolve_new_path, whatever the file tree holds.
ValidatedPathIsContained ==
    \A i \in 1..Len(obs.ops) :
        LET e == obs.ops[i]
        IN /\ (e.op = "validate_existing" /\ e.res.ok) =>
                /\ e.res.val = canonicalize(disk, e.path)
                /\ e.res.val \in DOMAIN disk
                /\ \E root \in config.allowed_roots : IsPrefix(root, e.res.val)
           /\ (~is_absolute(e.path) \/ contains_parent_dir(e.path)) =>
                /\ e.res = FsErr("path_traversal")
                /\ \A d \in Disks, amp \in BOOLEAN :
                      /\ validate_existing(d, config, e.path) = FsErr("path_traversal")
                      /\ resolve_new_path(d, config, e.path, amp) = FsErr("path_traversal")

\* C17 witness: with symlinks followed, a file requested through the symlink
\* was accepted as /home/real/n.txt, and a path through ".." was rejected.
LinkedFileAccepted ==
    /\ Len(obs.ops) = 2
    /\ config.follow_symlinks
    /\ obs.ops[1] = [op |-> "validate_existing", path |-> LinkPath \o <<"n.txt">>,
                     res |-> FsOk(RealDir \o <<"n.txt">>)]
    /\ obs.ops[2].path = <<"/", "home", "..", "etc", "n.txt">>
    /\ obs.ops[2].res = FsErr("path_traversal")

\* C18: with follow_symlinks = false, validate_existing answers
\* permission_denied for every path that reaches an existing target through
\* a symlinked component.
SymlinkedPathDenied ==
    \A i \in 1..Len(obs.ops) :
        LET e == obs.ops[i]
        IN (/\ e.op = "validate_existing"
            /\ ~config.follow_symlinks
            /\ is_absolute(e.path) /\ ~contains_parent_dir(e.path)
            /\ Exists(disk, e.path)
            /\ contains_symlink(disk, e.path))
           => e.res = FsErr("permission_denied")

(* ------------------------------------------------------------------ *)
(* FileOperations::write_file and read_file                            *)
(* ------------------------------------------------------------------ *)

\* Request payloads and encodings; <<"hi">> with encoding base64 stands for
\* a payload that is no base64 text.
Contents == {<<"hi">>, <<"%PDF">>, <<"b64", "bin">>}
Encodings == {"utf8", "base64"}

\* BASE64.encode / decode, std::str::from_utf8(..).is_ok(), from_utf8_lossy.
B64Encode(w) == <<"b64">> \o w
B64Valid(t) == t # <<>> /\ t[1] = "b64"
B64Decode(t) == Tail(t)
Utf8Valid(w) == w = <<>> \/ w[1] # "bin"
Utf8Lossy(w) == <<"lossy">> \o w

\* is_text_mime(detect_mime_type(buffer, filename)): a magic number wins,
\* then the extension (".txt" is text), and for an unknown extension the
\* buffer is text when is_probably_text finds valid UTF-8.
is_text(w, name) ==
    IF w = <<"%PDF">> THEN FALSE
    ELSE name = "n.txt" \/ (w # <<>> /\ Utf8Valid(w)) \/ w = <<>>

\* sibling_with_suffix(path, suffix)
sibling_with_suffix(p, suffix) == Append(Parent(p), FileName(p) \o "." \o suffix)

\* Effects of the system calls on a tree: fs::rename, fs::remove_file,
\* fs::create_dir_all, fs::write / fs::copy to a path.
Moved(src, dst, x) == dst \o SubSeq(x, Len(src) + 1, Len(x))
Rename(d, src, dst) ==
    LET moved == {x \in DOMAIN d : IsPrefix(src, x)}
    IN [y \in (DOMAIN d \ moved) \cup {Moved(src, dst, x) : x \in moved} |->
           IF \E x \in moved : Moved(src, dst, x) = y
           THEN d[CHOOSE x \in moved : Moved(src, dst, x) = y]
           ELSE d[y]]
RemoveFile(d, q) == IF q \in DOMAIN d /\ d[q].kind # "dir" THEN Del(d, q) ELSE d
CreateDirAll(d, q) ==
    [x \in DOMAIN d \cup {SubSeq(q, 1, i) : i \in 1..Len(q)} |->
        IF x \in DOMAIN d THEN d[x] ELSE DirNode]

\* FileOperations::read_file of the whole file on tree d.
read_file(d, cfg, p, encoding) ==
    LET v == validate_existing(d, cfg, p)
    IN IF ~v.ok THEN v
       ELSE IF d[v.val].kind # "file" THEN FsErr("not_a_file")
       ELSE LET buffer == d[v.val].data
            IN IF encoding = "utf8" /\ is_text(buffer, FileName(v.val))
               THEN FsOk([content |-> IF Utf8Valid(buffer) THEN buffer ELSE Utf8Lossy(buffer),
                          encoding |-> "utf8"])
               ELSE FsOk([content |-> B64Encode(buffer), encoding |-> "base64"])

\* The request_id of the request peer a's handler has in hand. Peers give
\* every request an id of its own: here the peer's address with the number
\* of its requests answered so far.
RequestId(a) ==
    <<a, Cardinality({k \in 1..Len(obs.ops) :
                        "peer" \in DOMAIN obs.ops[k] /\ obs.ops[k].peer = a})>>

\* A handler's reply: operation_success / file_content, or operation_error,
\* with the request_id of the request.
FsReply(a, op, res) ==
    Append(sock[a], IF res.ok THEN <<"operation_success", op, RequestId(a)>>
                    ELSE <<"operation_error", op, res.err, RequestId(a)>>)

\* check_fs_rate_limit for peer a.
RateCheck(a) == allow(Get(file_rate_limiters, a, RateLimiterNew(obs.clock)), obs.clock)

\* The ReadFile request: rate limit, read_file, reply.
ReadFile(a, p, encoding) ==
    /\ pc[a] = "m_loop"
    /\ Len(obs.ops) < MaxOps
    /\ WLockFree
    /\ LET res == IF RateCheck(a).ok THEN read_file(disk, config, p, encoding)
                  ELSE FsErr("rate_limited")
       IN /\ file_rate_limiters' = Put(file_rate_limiters, a, RateCheck(a).limiter)
          /\ sock' = [sock EXCEPT ![a] = FsReply(a, "read_file", res)]
          /\ obs' = [obs EXCEPT !.ops =
                        Append(@, [op |-> "read_file", path |-> p, encoding |-> encoding,
                                   res |-> res, pre |-> disk, post |-> disk,
                                   peer |-> a, request_id |-> RequestId(a)])]
    /\ UNCHANGED <<pc, first, loc, regVars, viewVars, file_watch_subscriptions,
                   file_watch_counts, watchers, chanVars, persisted, diskVars, rlock>>

\* The WriteFile request up to the temp file: rate limit, resolve_new_path,
\* the writability and directory checks, the decoding of the payload and
\* create_dir_all of the parent when create_parents is set.
WriteFile(a, p, content, encoding, create_parents, mk_ok) ==
    /\ pc[a] = "m_loop"
    /\ Len(obs.ops) < MaxOps
    /\ WLockFree
    /\ LET r == resolve_new_path(disk, config, p, create_parents)
           res == IF ~RateCheck(a).ok THEN FsErr("rate_limited")
                  ELSE IF ~r.ok THEN r
                  ELSE IF ~is_writable(config, r.val) THEN FsErr("permission_denied")
                  ELSE IF IsDir(disk, r.val) THEN FsErr("not_a_file")
                  ELSE IF encoding = "base64" /\ ~B64Valid(content)
                       THEN FsErr("invalid_encoding")
                  ELSE IF create_parents /\ ~mk_ok THEN FsErr("io_error")
                  ELSE FsOk(r.val)
           call == [op |-> "write_file", path |-> p, content |-> content,
                    encoding |-> encoding, create_parents |-> create_parents, pre |-> disk,
                    peer |-> a, request_id |-> RequestId(a)]
       IN /\ file_rate_limiters' = Put(file_rate_limiters, a, RateCheck(a).limiter)
          /\ IF res.ok
             THEN /\ disk' = IF create_parents THEN CreateDirAll(disk, Parent(r.val)) ELSE disk
                  /\ loc' = [loc EXCEPT ![a].nreq = @ + 1,
                                        ![a].req =
                               [path |-> r.val,
                                bytes |-> IF encoding = "utf8" THEN content
                                          ELSE B64Decode(content),
                                temp_path |-> sibling_with_suffix(r.val,
                                                 "tmp-" \o a \o ToString(loc[a].nreq)),
                                backup_path |-> <<>>]]
                  /\ pc' = [pc EXCEPT ![a] = "wf_temp"]
                  /\ obs' = [obs EXCEPT !.pre = call]
                  /\ UNCHANGED sock
             ELSE /\ sock' = [sock EXCEPT ![a] = FsReply(a, "write_file", res)]
                  /\ obs' = [obs EXCEPT !.ops =
                                Append(@, call @@ [res |-> res, post |-> disk,
                                                   resolved |-> <<>>, backed |-> FALSE,
                                                   temp_path |-> <<>>, cleaned |-> TRUE])]
                  /\ UNCHANGED <<pc, loc, disk>>
    /\ UNCHANGED <<first, regVars, viewVars, file_watch_subscriptions, file_watch_counts,
                   watchers, chanVars, persisted, config, search, fwd, rlock>>

\* write_file returns res on tree d2: the reply is written and the peer is
\* back in its loop.
WriteReturns(a, res, d2, cleaned) ==
    /\ disk' = d2
    /\ sock' = [sock EXCEPT ![a] = FsReply(a, "write_file", res)]
    /\ pc' = [pc EXCEPT ![a] = "m_loop"]
    /\ obs' = [obs EXCEPT !.ops =
                  Append(@, obs.pre @@ [res |-> res, post |-> d2,
                                        resolved |-> loc[a].req.path,
                                        backed |-> loc[a].req.backup_path # <<>>,
                                        temp_path |-> loc[a].req.temp_path,
                                        cleaned |-> cleaned])]
    /\ UNCHANGED <<first, loc, regVars, viewVars, watchVars, chanVars, persisted, config, search, fwd, rlock>>

\* A step of write_file that goes on to position next on tree d2.
WriteGoes(a, next, d2, backup) ==
    /\ disk' = d2
    /\ pc' = [pc EXCEPT ![a] = next]
    /\ loc' = [loc EXCEPT ![a].req.backup_path = backup]
    /\ UNCHANGED <<first, sock, regVars, viewVars, watchVars, chanVars, persisted, config, search, fwd,
                   rlock, obs>>

\* fs::write(&temp_path, &bytes): done, failed with nothing written, or failed
\* with the file created and cut short; a failure returns io_error at once.
WriteTemp(a, outcome) ==
    /\ pc[a] = "wf_temp"
    /\ LET t == loc[a].req.temp_path
       IN CASE outcome = "ok" ->
                  WriteGoes(a, "wf_backup", Put(disk, t, FileNode(loc[a].req.bytes)), <<>>)
            [] outcome = "failed" -> WriteReturns(a, FsErr("io_error"), disk, TRUE)
            [] outcome = "partial" ->
                  WriteReturns(a, FsErr("io_error"), Put(disk, t, FileNode(<<>>)), TRUE)

\* if path.exists(): remove_file(backup) (result ignored), rename(path, backup).
WriteBackup(a, ok) ==
    /\ pc[a] = "wf_backup"
    /\ LET path == loc[a].req.path
           backup == sibling_with_suffix(path, "bak")
       IN IF ~Exists(disk, path)
          THEN ok /\ WriteGoes(a, "wf_rename", disk, <<>>)
          ELSE IF ok
               THEN WriteGoes(a, "wf_rename",
                              Rename(RemoveFile(disk, backup), path, backup), backup)
               ELSE WriteGoes(a, "wf_rmtemp", RemoveFile(disk, backup), <<>>)

\* A replacement that, on failure, skips the restore of the backup.
WriteRenameNoRestore(a, ok) ==
    /\ pc[a] = "wf_rename"
    /\ IF ok
       THEN WriteGoes(a, "wf_rmbak", Rename(disk, loc[a].req.temp_path, loc[a].req.path),
                      loc[a].req.backup_path)
       ELSE WriteGoes(a, "wf_rmtemp", RemoveFile(disk, loc[a].req.backup_path),
                      loc[a].req.backup_path)

\* fs::rename(&temp_path, &path)
WriteRename(a, ok) ==
    /\ pc[a] = "wf_rename"
    /\ IF ok
       THEN WriteGoes(a, "wf_rmbak", Rename(disk, loc[a].req.temp_path, loc[a].req.path),
                      loc[a].req.backup_path)
       ELSE WriteGoes(a, "wf_restore", disk, loc[a].req.backup_path)

\* The restore after a failed replacement: rename(backup, path); when that
\* fails, copy(backup, path), which keeps the backup; the copy can fail with
\* nothing written or with the destination cut short.
WriteRestore(a, outcome) ==
    /\ pc[a] = "wf_restore"
    /\ LET path == loc[a].req.path
           backup == loc[a].req.backup_path
       IN IF backup = <<>>
          THEN outcome = "none" /\ WriteGoes(a, "wf_rmtemp", disk, backup)
          ELSE CASE outcome = "rename" ->
                        WriteGoes(a, "wf_rmtemp", Rename(disk, backup, path), backup)
                 [] outcome = "copy" ->
                        WriteGoes(a, "wf_rmtemp", Put(disk, path, disk[backup]), backup)
                 [] outcome = "none" -> WriteGoes(a, "wf_rmtemp", disk, backup)
                 [] outcome = "partial" ->
                        WriteGoes(a, "wf_rmtemp", Put(disk, path, FileNode(<<>>)), backup)

\* let _ = remove_file(&temp_path), then Err(IoError).
WriteRmTemp(a, ok) ==
    /\ pc[a] = "wf_rmtemp"
    /\ WriteReturns(a, FsErr("io_error"),
                    IF ok THEN RemoveFile(disk, loc[a].req.temp_path) ELSE disk, ok)

\* let _ = remove_file(backup) when there is one, then Ok(()).
WriteRmBak(a, ok) ==
    /\ pc[a] = "wf_rmbak"
    /\ loc[a].req.backup_path = <<>> => ok
    /\ WriteReturns(a, FsOk(loc[a].req.path),
                    IF ok /\ loc[a].req.backup_path # <<>>
                    THEN RemoveFile(disk, loc[a].req.backup_path) ELSE disk, TRUE)

\* One peer writes a file and then reads a file.
NextWrite ==
    \/ handle_connection("m1", <<"hello", "match">>)
    \/ MobileEntry("m1")
    \/ SendWelcome("m1", TRUE)
    \/ \E p \in FsPaths, c \in Contents, e \in Encodings, cp \in BOOLEAN, mk \in BOOLEAN :
          Len(obs.ops) = 0 /\ (cp \/ mk) /\ WriteFile("m1", p, c, e, cp, mk)
    \/ \E o \in {"ok", "failed", "partial"} : WriteTemp("m1", o)
    \/ \E ok \in BOOLEAN : WriteBackup("m1", ok)
    \/ \E ok \in BOOLEAN : WriteRename("m1", ok)
    \/ \E o \in {"rename", "copy", "none", "partial"} : WriteRestore("m1", o)
    \/ \E ok \in BOOLEAN : WriteRmTemp("m1", ok)
    \/ \E ok \in BOOLEAN : WriteRmBak("m1", ok)
    \/ \E p \in FsPaths, e \in Encodings : Len(obs.ops) = 1 /\ ReadFile("m1", p, e)

SpecWrite == InitFs /\ [][NextWrite]_vars

\* The bytes a read_file result stands for, by the encoding it reports.
Decoded(v) == IF v.encoding = "utf8" THEN v.content ELSE B64Decode(v.content)

\* The bytes write_file was asked to store.
Payload(e) == IF e.encoding = "utf8" THEN e.content ELSE B64Decode(e.content)

\* A write_file that failed after the destination was renamed to its .bak
\* sibling left the prior content at the destination, or returned io_error
\* with the .bak sibling holding the prior content.
PriorContentKept(e) ==
    LET bak == sibling_with_suffix(e.resolved, "bak")
    IN \/ e.resolved \in DOMAIN e.post /\ e.post[e.resolved] = e.pre[e.resolved]
       \/ /\ e.res = FsErr("io_error")
          /\ bak \in DOMAIN e.post
          /\ e.post[bak] = e.pre[e.resolved]

\* The read_file that follows a successful write_file of the same path, in
\* the encoding of the write, returns the bytes written.
ReadsBackWritten ==
    (/\ Len(obs.ops) = 2
     /\ obs.ops[1].op = "write_file" /\ obs.ops[1].res.ok
     /\ obs.ops[2].op = "read_file"
     /\ obs.ops[2].path = obs.ops[1].path
     /\ obs.ops[2].encoding = obs.ops[1].encoding)
    => /\ obs.ops[2].res.ok
       /\ Decoded(obs.ops[2].res.val) = Payload(obs.ops[1])

Outcome(res, d) == [res |-> res, disk |-> d]

\* fs::remove_file / remove_dir / remove_dir_all of q, and the tree copy of
\* copy_dir_recursive / fs::copy: an entry whose metadata is a directory is
\* recursed into, any other entry goes through fs::copy, which follows a
\* symlink and writes the bytes of its target.
RemoveTree(d, q) == [x \in {x \in DOMAIN d : ~IsPrefix(q, x)} |-> d[x]]
CopyTree(d, src, dst) ==
    LET from == {x \in DOMAIN d : IsPrefix(src, x)}
        made == CreateDirAll(d, Parent(dst))
    IN [y \in DOMAIN made \cup {Moved(src, dst, x) : x \in from} |->
           IF \E x \in from : Moved(src, dst, x) = y
           THEN LET x == CHOOSE x \in from : Moved(src, dst, x) = y
                IN IF d[x].kind = "link" THEN d[canonicalize(d, x)] ELSE d[x]
           ELSE made[y]]

\* FileOperations::create_directory; io_ok tells whether the system call
\* succeeds.
create_directory(d, cfg, p, recursive, io_ok) ==
    LET r == resolve_new_path(d, cfg, p, recursive)
    IN IF ~r.ok THEN Outcome(r, d)
       ELSE IF Exists(d, r.val) THEN Outcome(FsErr("already_exists"), d)
       ELSE IF ~io_ok THEN Outcome(FsErr("io_error"), d)
       ELSE Outcome(FsOk(r.val), CreateDirAll(d, r.val))

\* FileOperations::delete_path
delete_path(d, cfg, p, recursive, io_ok) ==
    LET v == validate_existing(d, cfg, p)
    IN IF ~v.ok THEN Outcome(v, d)
       ELSE IF ~is_writable(cfg, v.val) THEN Outcome(FsErr("permission_denied"), d)
       ELSE IF d[v.val].kind = "dir" /\ ~recursive
               /\ \E x \in DOMAIN d : IsPrefix(v.val, x) /\ x # v.val
            THEN Outcome(FsErr("not_empty"), d)
       ELSE IF ~io_ok THEN Outcome(FsErr("io_error"), d)
       ELSE Outcome(FsOk(v.val), RemoveTree(d, v.val))

\* A rename that asks only whether the old path is writable.
rename_path_old_only(d, cfg, old_path, new_path, io_ok) ==
    LET v == validate_existing(d, cfg, old_path)
        r == resolve_new_path(d, cfg, new_path, FALSE)
    IN IF ~v.ok THEN Outcome(v, d)
       ELSE IF ~r.ok THEN Outcome(r, d)
       ELSE IF ~is_writable(cfg, v.val) THEN Outcome(FsErr("permission_denied"), d)
       ELSE IF Exists(d, r.val) THEN Outcome(FsErr("already_exists"), d)
       ELSE IF ~io_ok \/ IsPrefix(v.val, r.val) THEN Outcome(FsErr("io_error"), d)
       ELSE Outcome(FsOk(r.val), Rename(d, v.val, r.val))

\* FileOperations::rename_path
rename_path(d, cfg, old_path, new_path, io_ok) ==
    LET v == validate_existing(d, cfg, old_path)
        r == resolve_new_path(d, cfg, new_path, FALSE)
    IN IF ~v.ok THEN Outcome(v, d)
       ELSE IF ~r.ok THEN Outcome(r, d)
       ELSE IF ~is_writable(cfg, v.val) \/ ~is_writable(cfg, r.val)
            THEN Outcome(FsErr("permission_denied"), d)
       ELSE IF Exists(d, r.val) THEN Outcome(FsErr("already_exists"), d)
       ELSE IF ~io_ok \/ IsPrefix(v.val, r.val) THEN Outcome(FsErr("io_error"), d)
       ELSE Outcome(FsOk(r.val), Rename(d, v.val, r.val))

\* FileOperations::copy_path; a directory copied into itself, a file copied
\* below a missing directory and a symlink entry whose target is no regular
\* file end in io_error, the first and the last after the destination
\* directory was made.
copy_path(d, cfg, source, destination, recursive, io_ok) ==
    LET v == validate_existing(d, cfg, source)
        r == resolve_new_path(d, cfg, destination, recursive)
    IN IF ~v.ok THEN Outcome(v, d)
       ELSE IF ~r.ok THEN Outcome(r, d)
       ELSE IF Exists(d, r.val) THEN Outcome(FsErr("already_exists"), d)
       ELSE IF d[v.val].kind = "dir" /\ ~recursive THEN Outcome(FsErr("not_a_directory"), d)
       ELSE IF d[v.val].kind = "dir" /\ IsPrefix(v.val, r.val)
            THEN Outcome(FsErr("io_error"), IF io_ok THEN CreateDirAll(d, r.val) ELSE d)
       ELSE IF ~io_ok \/ (d[v.val].kind # "dir" /\ ~Exists(d, Parent(r.val)))
            THEN Outcome(FsErr("io_error"), d)
       ELSE IF \E x \in DOMAIN d : IsPrefix(v.val, x) /\ d[x].kind = "link" /\ ~IsFile(d, x)
            THEN Outcome(FsErr("io_error"), CreateDirAll(d, r.val))
       ELSE Outcome(FsOk(r.val), CopyTree(d, v.val, r.val))

\* An arm that goes on to the operation after a rate-limit denial: the
\* `return Ok(())` after the rate_limited reply is missing.
FsCallDeniedRuns(a, call, out) ==
    /\ pc[a] = "m_loop"
    /\ Len(obs.ops) < MaxOps
    /\ WLockFree
    /\ LET res == IF RateCheck(a).ok THEN out.res ELSE FsErr("rate_limited")
       IN /\ file_rate_limiters' = Put(file_rate_limiters, a, RateCheck(a).limiter)
          /\ disk' = out.disk
          /\ sock' = [sock EXCEPT ![a] = FsReply(a, call.op, res)]
          /\ obs' = [obs EXCEPT !.ops =
                        Append(@, call @@ [res |-> res, pre |-> disk, post |-> out.disk,
                                           peer |-> a, request_id |-> RequestId(a)])]
    /\ UNCHANGED <<pc, first, loc, regVars, viewVars, file_watch_subscriptions,
                   file_watch_counts, watchers, chanVars, persisted, config, search, fwd, rlock>>

\* A request served by one call of FileOperations: rate limit, the call,
\* the reply.
FsCall(a, call, out) ==
    /\ pc[a] = "m_loop"
    /\ Len(obs.ops) < MaxOps
    /\ WLockFree
    /\ LET o == IF RateCheck(a).ok THEN out ELSE Outcome(FsErr("rate_limited"), disk)
       IN /\ file_rate_limiters' = Put(file_rate_limiters, a, RateCheck(a).limiter)
          /\ disk' = o.disk
          /\ sock' = [sock EXCEPT ![a] = FsReply(a, call.op, o.res)]
          /\ obs' = [obs EXCEPT !.ops =
                        Append(@, call @@ [res |-> o.res, pre |-> disk, post |-> o.disk,
                                           peer |-> a, request_id |-> RequestId(a)])]
    /\ UNCHANGED <<pc, first, loc, regVars, viewVars, file_watch_subscriptions,
                   file_watch_counts, watchers, chanVars, persisted, config, search, fwd, rlock>>

CreateDirectory(a, p, recursive, io_ok) ==
    FsCall(a, [op |-> "create_directory", path |-> p, to |-> <<>>, recursive |-> recursive],
           create_directory(disk, config, p, recursive, io_ok))

DeletePath(a, p, recursive, io_ok) ==
    FsCall(a, [op |-> "delete_path", path |-> p, to |-> <<>>, recursive |-> recursive],
           delete_path(disk, config, p, recursive, io_ok))

RenamePath(a, old_path, new_path, io_ok) ==
    FsCall(a, [op |-> "rename_path", path |-> old_path, to |-> new_path, recursive |-> FALSE],
           rename_path(disk, config, old_path, new_path, io_ok))

CopyPath(a, source, destination, recursive, io_ok) ==
    FsCall(a, [op |-> "copy_path", path |-> source, to |-> destination, recursive |-> recursive],
           copy_path(disk, config, source, destination, recursive, io_ok))

\* One peer makes one modifying request.
NextModify ==
    \/ handle_connection("m1", <<"hello", "match">>)
    \/ MobileEntry("m1")
    \/ SendWelcome("m1", TRUE)
    \/ \E p \in FsPaths, c \in Contents, e \in Encodings, cp \in BOOLEAN :
          Len(obs.ops) = 0 /\ WriteFile("m1", p, c, e, cp, TRUE)
    \/ WriteTemp("m1", "ok")
    \/ WriteBackup("m1", TRUE)
    \/ WriteRename("m1", TRUE)
    \/ WriteRmBak("m1", TRUE)
    \/ \E p \in FsPaths, r \in BOOLEAN, ok \in BOOLEAN :
          Len(obs.ops) = 0 /\ CreateDirectory("m1", p, r, ok)
    \/ \E p \in FsPaths, r \in BOOLEAN, ok \in BOOLEAN :
          Len(obs.ops) = 0 /\ DeletePath("m1", p, r, ok)
    \/ \E p \in FsPaths, q \in FsPaths, ok \in BOOLEAN :
          Len(obs.ops) = 0 /\ RenamePath("m1", p, q, ok)
    \/ \E p \in FsPaths, q \in FsPaths, r \in BOOLEAN, ok \in BOOLEAN :
          Len(obs.ops) = 0 /\ CopyPath("m1", p, q, r, ok)

SpecModify == InitFs /\ [][NextModify]_vars

\* A path matches a read-only glob "r/**": it lies below r.
MatchesReadOnly(p) ==
    \E r \in config.read_only_patterns : Len(p) > Len(r) /\ SubSeq(p, 1, Len(r)) = r

\* The validated targets of a logged request: the resolved destination of
\* write_file, the canonical path of delete_path, both paths of rename_path;
\* the empty set when the validator refuses one of the paths.
Targets(e) ==
    LET new(p, amp) == resolve_new_path(e.pre, config, p, amp)
        old(p) == validate_existing(e.pre, config, p)
    IN CASE e.op = "write_file" ->
              IF new(e.path, e.create_parents).ok
              THEN {new(e.path, e.create_parents).val} ELSE {}
         [] e.op = "delete_path" -> IF old(e.path).ok THEN {old(e.path).val} ELSE {}
         [] e.op = "rename_path" ->
              IF old(e.path).ok /\ new(e.to, FALSE).ok
              THEN {old(e.path).val, new(e.to, FALSE).val} ELSE {}
         [] e.op = "create_directory" ->
              IF new(e.path, e.recursive).ok THEN {new(e.path, e.recursive).val} ELSE {}
         [] e.op = "copy_path" ->
              IF old(e.path).ok /\ new(e.to, e.recursive).ok
              THEN {new(e.to, e.recursive).val} ELSE {}
         [] OTHER -> {}

CreateAndCopyRespectReadOnly ==
    \A i \in 1..Len(obs.ops) :
        LET e == obs.ops[i]
        IN (/\ e.op \in {"create_directory", "copy_path"}
            /\ \E t \in Targets(e) : MatchesReadOnly(t))
           => e.res = FsErr("permission_denied") /\ e.post = e.pre

(* ------------------------------------------------------------------ *)
(* Recursive copy of a directory with symlink entries                  *)
(* ------------------------------------------------------------------ *)

SrcDir == <<"/", "home", "real", "srcdir">>
SubDir == SrcDir \o <<"sub">>
EtcFile == EtcDir \o <<"n.txt">>

\* /home/real/srcdir with the file a.txt and, at depth one or two or not at
\* all, the symlink link.txt to the file /etc/n.txt outside the allowed root.
CopyTreeAt(depth) ==
    LET base == HostTree(<<>>, FALSE, FALSE)
        at == IF depth = 1 THEN SrcDir \o <<"link.txt">> ELSE SubDir \o <<"link.txt">>
        dirs == {SrcDir, SubDir}
        files == {SrcDir \o <<"a.txt">>}
        links == IF depth = 0 THEN {} ELSE {at}
    IN [p \in DOMAIN base \cup dirs \cup files \cup links |->
            IF p \in DOMAIN base THEN base[p]
            ELSE IF p \in dirs THEN DirNode
            ELSE IF p \in files THEN FileNode(<<"hi">>)
            ELSE LinkNode(EtcFile)]

CopyDisks == {CopyTreeAt(n) : n \in 0..2}

\* Sources and destinations of the copy requests.
CopySources == {SrcDir, SubDir, SrcDir \o <<"a.txt">>, SrcDir \o <<"link.txt">>}
CopyDests == {<<"/", "home", "real", "destdir">>, <<"/", "home", "new", "destdir">>, SrcDir}

\* One peer makes one copy request.
NextCopy ==
    \/ handle_connection("m1", <<"hello", "match">>)
    \/ MobileEntry("m1")
    \/ SendWelcome("m1", TRUE)
    \/ \E p \in CopySources, q \in CopyDests, r \in BOOLEAN, ok \in BOOLEAN :
          Len(obs.ops) = 0 /\ CopyPath("m1", p, q, r, ok)

SpecCopy == InitWith(CopyDisks, Configs) /\ [][NextCopy]_vars

\* The symlink entries, at any depth, of the directory a copy_path request
\* names as its source.
LinkEntries(e) ==
    {x \in DOMAIN e.pre : IsPrefix(e.path, x) /\ x # e.path /\ e.pre[x].kind = "link"}

\* C21: with follow_symlinks = false, a recursive copy_path of a directory
\* holding a symlink entry at any depth answers permission_denied, and the
\* destination gets no copy of what the symlink points to.
CopyRefusesSymlinkEntries ==
    \A i \in 1..Len(obs.ops) :
        LET e == obs.ops[i]
        IN (/\ e.op = "copy_path" /\ e.recursive
            /\ ~config.follow_symlinks
            /\ Targets(e) # {}
            /\ e.pre[e.path].kind = "dir"
            /\ LinkEntries(e) # {})
           => /\ e.res = FsErr("permission_denied")
              /\ \A x \in LinkEntries(e), t \in Targets(e) :
                    Moved(e.path, t, x) \notin DOMAIN e.post

(* ------------------------------------------------------------------ *)
(* FileSearch::search_files: the parallel walk                         *)
(* ------------------------------------------------------------------ *)

\* The threads of the parallel walker and the largest max_results asked.
Walkers == {"t1", "t2"}
MaxResults == 2

\* glob::Pattern::matches on a file name, for the patterns "*" and a
\* literal name.
pattern_matches(pattern, name) == pattern = "*" \/ name = pattern

\* The entries the walker yields below root: root itself and every path of
\* the tree under it (symlinks are yielded, not descended into).
WalkEntries(d, root) == {x \in DOMAIN d : IsPrefix(root, x)}

\* What the closure finds for entry x before it reserves a slot: the name
\* matches, validate_existing accepts the entry, its canonical path is not
\* denied and has metadata.
IsMatch(d, cfg, pattern, x) ==
    /\ pattern_matches(pattern, FileName(x))
    /\ validate_existing(d, cfg, x).ok
    /\ ~is_denied(cfg, validate_existing(d, cfg, x).val)
    /\ Exists(d, validate_existing(d, cfg, x).val)

WalkerIdle == [pc |-> "idle", entry |-> <<>>, current |-> 0]

\* The SearchFiles request: rate limit, validate_existing of the root, the
\* start of the parallel walk with match_count = 0 and no matches.
SearchFiles(a, p, pattern, max_results) ==
    /\ pc[a] = "m_loop"
    /\ Len(obs.ops) < MaxOps
    /\ WLockFree
    /\ ~search.active
    /\ LET r == validate_existing(disk, config, p)
           res == IF ~RateCheck(a).ok THEN FsErr("rate_limited") ELSE r
       IN /\ file_rate_limiters' = Put(file_rate_limiters, a, RateCheck(a).limiter)
          /\ IF res.ok
             THEN /\ search' = [active |-> TRUE, path |-> p, root |-> r.val,
                                pattern |-> pattern, max_results |-> max_results,
                                todo |-> WalkEntries(disk, r.val), quit |-> FALSE,
                                match_count |-> 0, matches |-> <<>>,
                                walker |-> [t \in Walkers |-> WalkerIdle]]
                  /\ pc' = [pc EXCEPT ![a] = "search"]
                  /\ UNCHANGED <<sock, obs>>
             ELSE /\ sock' = [sock EXCEPT ![a] = FsReply(a, "search_files", res)]
                  /\ obs' = [obs EXCEPT !.ops =
                                Append(@, [op |-> "search_files", path |-> p,
                                           pattern |-> pattern, max_results |-> max_results,
                                           res |-> res, matches |-> <<>>, truncated |-> FALSE,
                                           matching |-> {}, pre |-> disk, post |-> disk,
                                           peer |-> a, request_id |-> RequestId(a)])]
                  /\ UNCHANGED <<pc, search>>
    /\ UNCHANGED <<first, loc, regVars, viewVars, file_watch_subscriptions,
                   file_watch_counts, watchers, chanVars, persisted, disk, config, fwd,
                   rlock>>

\* The rest of the variables while the walk runs.
WalkFrame ==
    UNCHANGED <<connVars, regVars, viewVars, watchVars, chanVars, persisted, disk, config,
                fwd, rlock, obs>>

\* Walker t takes entry x: Quit when match_count has reached max_results,
\* Continue when the entry is no match, otherwise on to the slot.
WalkEntry(a, t, x) ==
    /\ pc[a] = "search"
    /\ search.walker[t].pc = "idle"
    /\ ~search.quit
    /\ x \in search.todo
    /\ search' =
          IF search.match_count >= search.max_results
          THEN [search EXCEPT !.todo = @ \ {x}, !.quit = TRUE]
          ELSE IF ~IsMatch(disk, config, search.pattern, x)
          THEN [search EXCEPT !.todo = @ \ {x}]
          ELSE [search EXCEPT !.todo = @ \ {x},
                              !.walker[t] = [pc |-> "load", entry |-> x, current |-> 0]]
    /\ WalkFrame

\* match_count.load in the reservation loop: leave it unreserved (Quit) at
\* max_results.
WalkLoad(a, t) ==
    /\ pc[a] = "search"
    /\ search.walker[t].pc = "load"
    /\ search' =
          IF search.match_count >= search.max_results
          THEN [search EXCEPT !.quit = TRUE, !.walker[t] = WalkerIdle]
          ELSE [search EXCEPT !.walker[t].pc = "cas",
                              !.walker[t].current = search.match_count]
    /\ WalkFrame

\* compare_exchange(current, current + 1): reserved, or round the loop again.
WalkCas(a, t) ==
    /\ pc[a] = "search"
    /\ search.walker[t].pc = "cas"
    /\ search' =
          IF search.match_count = search.walker[t].current
          THEN [search EXCEPT !.match_count = @ + 1, !.walker[t].pc = "push"]
          ELSE [search EXCEPT !.walker[t].pc = "load"]
    /\ WalkFrame

\* matches.lock().push(SearchMatch) for the reserved slot.
WalkPush(a, t) ==
    /\ pc[a] = "search"
    /\ search.walker[t].pc = "push"
    /\ search' = [search EXCEPT
                     !.matches = Append(@, validate_existing(disk, config,
                                                             search.walker[t].entry).val),
                     !.walker[t] = WalkerIdle]
    /\ WalkFrame

\* walker.run returns: every thread is out of its closure and the entries
\* are used up or a thread said Quit. truncated is computed and the
\* SearchResults frame written.
SearchReturns(a) ==
    /\ pc[a] = "search"
    /\ \A t \in Walkers : search.walker[t].pc = "idle"
    /\ search.quit \/ search.todo = {}
    /\ LET truncated == Len(search.matches) >= search.max_results
       IN /\ sock' = [sock EXCEPT ![a] =
                        Append(@, <<"search_results", search.matches, truncated,
                                    RequestId(a)>>)]
          /\ obs' = [obs EXCEPT !.ops =
                        Append(@, [op |-> "search_files", path |-> search.path,
                                   pattern |-> search.pattern,
                                   max_results |-> search.max_results,
                                   res |-> FsOk(search.root), matches |-> search.matches,
                                   truncated |-> truncated,
                                   matching |-> {x \in WalkEntries(disk, search.root) :
                                                   IsMatch(disk, config, search.pattern, x)},
                                   pre |-> disk, post |-> disk,
                                   peer |-> a, request_id |-> RequestId(a)])]
    /\ search' = NoSearch
    /\ pc' = [pc EXCEPT ![a] = "m_loop"]
    /\ UNCHANGED <<first, loc, regVars, viewVars, watchVars, chanVars, persisted, disk,
                   config, fwd, rlock>>

SearchRoots == {HomeDir, RealDir, EtcDir}
SearchPatterns == {"*", "n.txt"}

NextSearch ==
    \/ handle_connection("m1", <<"hello", "match">>)
    \/ MobileEntry("m1")
    \/ SendWelcome("m1", TRUE)
    \/ \E p \in SearchRoots, g \in SearchPatterns, m \in 1..MaxResults :
          Len(obs.ops) = 0 /\ SearchFiles("m1", p, g, m)
    \/ \E t \in Walkers, x \in DOMAIN disk : WalkEntry("m1", t, x)
    \/ \E t \in Walkers : WalkLoad("m1", t)
    \/ \E t \in Walkers : WalkCas("m1", t)
    \/ \E t \in Walkers : WalkPush("m1", t)
    \/ SearchReturns("m1")

SpecSearch == InitFs /\ [][NextSearch]_vars

\* C22: every search returns at most max_results matches, and reports
\* truncated exactly when strictly more than max_results entries of the
\* walked tree match.
SearchTruncatedIffMore ==
    \A i \in 1..Len(obs.ops) :
        LET e == obs.ops[i]
        IN (e.op = "search_files" /\ e.res.ok) =>
              /\ Len(e.matches) <= e.max_results
              /\ e.truncated <=> (Cardinality(e.matching) > e.max_results)

\* Every search returns at most max_results matches, whatever the order in
\* which the walkers run (the part of C22 the reservation loop does keep).
SearchReturnsAtMostMax ==
    \A i \in 1..Len(obs.ops) :
        (obs.ops[i].op = "search_files") => Len(obs.ops[i].matches) <= obs.ops[i].max_results

(* ------------------------------------------------------------------ *)
(* FileOperations::read_file_chunk                                     *)
(* ------------------------------------------------------------------ *)

\* u64 arithmetic on words of WordBits bits.
WordBits == 4
WordMod == 2 ^ WordBits
U64Max == WordMod - 1
saturating_mul(x, y) == Min(x * y, U64Max)

\* md5::compute of a buffer, in hex.
Md5Hex(w) == <<"md5">> \o w

\* read_file_chunk(path, chunk_index, chunk_size) on tree d. The sums
\* size + chunk_size - 1 and chunk_index + 1 are plain u64 operations and
\* wrap on overflow. Files here are shorter than max_read_size and than the
\* largest single read of the file.
read_file_chunk(d, cfg, p, chunk_index, chunk_size) ==
    IF chunk_size = 0 THEN FsErr("io_error")
    ELSE
    LET v == validate_existing(d, cfg, p)
    IN IF ~v.ok THEN v
       ELSE IF d[v.val].kind # "file" THEN FsErr("not_a_file")
       ELSE
       LET size == Len(d[v.val].data)
           sum == size + chunk_size - 1
           total_chunks == IF size = 0 THEN 1 ELSE (sum % WordMod) \div chunk_size
           offset == saturating_mul(chunk_index, chunk_size)
           read_len == IF size = 0 THEN 0 ELSE Min(chunk_size, size - offset)
           buffer == SubSeq(d[v.val].data, offset + 1, offset + read_len)
       IN IF offset >= size /\ size # 0 THEN FsErr("not_found")
          ELSE FsOk([total_chunks |-> total_chunks, total_size |-> size,
                     chunk_index |-> chunk_index, data |-> B64Encode(buffer),
                     checksum |-> Md5Hex(buffer),
                     is_last |-> ((chunk_index + 1) % WordMod >= total_chunks)])

\* The ReadFileChunk request: rate limit, read_file_chunk, the FileChunk
\* frame or the error.
ReadFileChunk(a, p, chunk_index, chunk_size) ==
    /\ pc[a] = "m_loop"
    /\ Len(obs.ops) < MaxOps
    /\ WLockFree
    /\ LET res == IF RateCheck(a).ok
                  THEN read_file_chunk(disk, config, p, chunk_index, chunk_size)
                  ELSE FsErr("rate_limited")
       IN /\ file_rate_limiters' = Put(file_rate_limiters, a, RateCheck(a).limiter)
          /\ sock' = [sock EXCEPT ![a] =
                        IF res.ok THEN Append(@, <<"file_chunk", res.val, RequestId(a)>>)
                        ELSE FsReply(a, "read_file_chunk", res)]
          /\ obs' = [obs EXCEPT !.ops =
                        Append(@, [op |-> "read_file_chunk", path |-> p,
                                   chunk_index |-> chunk_index, chunk_size |-> chunk_size,
                                   res |-> res, pre |-> disk, post |-> disk,
                                   peer |-> a, request_id |-> RequestId(a)])]
    /\ UNCHANGED <<pc, first, loc, regVars, viewVars, file_watch_subscriptions,
                   file_watch_counts, watchers, chanVars, persisted, diskVars, rlock>>

\* Trees whose /home/real/n.txt has 0 to 3 bytes.
ChunkFile == RealDir \o <<"n.txt">>
ChunkDisks ==
    {[x \in DOMAIN HostTree(<<>>, TRUE, FALSE) |->
         IF x = ChunkFile THEN FileNode(w) ELSE HostTree(<<>>, TRUE, FALSE)[x]] :
       w \in {<<>>, <<"a">>, <<"a", "b">>, <<"a", "b", "c">>}}
ChunkPaths == {ChunkFile, RealDir, RealDir \o <<"none.txt">>, EtcFile}
ChunkArgs == {0, 1, 2, 3, U64Max}

NextChunk ==
    \/ handle_connection("m1", <<"hello", "match">>)
    \/ MobileEntry("m1")
    \/ SendWelcome("m1", TRUE)
    \/ \E p \in ChunkPaths, i \in ChunkArgs, c \in ChunkArgs :
          Len(obs.ops) = 0 /\ ReadFileChunk("m1", p, i, c)

SpecChunk == InitWith(ChunkDisks, Configs) /\ [][NextChunk]_vars

\* ceil(n / c) for c > 0.
CeilDiv(n, c) == (n + c - 1) \div c

\* C23: for a file of n bytes and chunk_size c > 0, a request for chunk i
\* below max(1, ceil(n/c)) is answered with that total, the bytes
\* [i*c, min(n, (i+1)*c)) and is_last exactly for the last index; a request
\* for a chunk_index at or beyond the total is an error; chunk_size 0 is an
\* error whatever the path.
ChunksTileTheFile ==
    \A j \in 1..Len(obs.ops) :
        LET e == obs.ops[j]
            v == validate_existing(e.pre, config, e.path)
            n == Len(e.pre[v.val].data)
            total == IF n = 0 THEN 1 ELSE CeilDiv(n, e.chunk_size)
        IN e.op = "read_file_chunk" =>
              /\ e.chunk_size = 0 => ~e.res.ok
              /\ (e.chunk_size > 0 /\ v.ok /\ e.pre[v.val].kind = "file") =>
                    IF e.chunk_index < total
                    THEN /\ e.res.ok
                         /\ e.res.val.total_chunks = total
                         /\ e.res.val.data =
                               B64Encode(SubSeq(e.pre[v.val].data,
                                                e.chunk_index * e.chunk_size + 1,
                                                Min(n, (e.chunk_index + 1) * e.chunk_size)))
                         /\ e.res.val.is_last <=> (e.chunk_index = total - 1)
                    ELSE ~e.res.ok

(* ------------------------------------------------------------------ *)
(* Filesystem requests and their replies                               *)
(* ------------------------------------------------------------------ *)

\* The burst is used up: peer m1 has made BurstSize - 1 requests.
BurstSpent == Len(obs.fs) >= BurstSize - 1

ReplyFile == RealDir \o <<"n.txt">>
ReplyPaths == {ReplyFile, RoDir \o <<"n.txt">>, <<"/", "home", "real", "d">>}

\* Two peers; m1 first drains its bucket with directory listings, then
\* both send filesystem requests of every kind.
NextReply ==
    \/ \E a \in Remotes : handle_connection(a, <<"hello", "match">>)
    \/ \E a \in Remotes : MobileEntry(a)
    \/ \E a \in Remotes : SendWelcome(a, TRUE)
    \/ Len(obs.fs) <= BurstSize /\ ListDirectory("m1")
    \/ \E a \in Remotes : BurstSpent /\ ReadFile(a, ReplyFile, "utf8")
    \/ \E a \in Remotes, i \in {0, 1}, c \in {0, 1} :
          BurstSpent /\ ReadFileChunk(a, ReplyFile, i, c)
    \/ \E p \in ReplyPaths : BurstSpent /\ WriteFile("m1", p, <<"hi">>, "utf8", FALSE, TRUE)
    \/ WriteTemp("m1", "ok")
    \/ WriteBackup("m1", TRUE)
    \/ WriteRename("m1", TRUE)
    \/ WriteRmBak("m1", TRUE)
    \/ \E a \in Remotes, p \in ReplyPaths : BurstSpent /\ CreateDirectory(a, p, FALSE, TRUE)
    \/ \E a \in Remotes, p \in ReplyPaths : BurstSpent /\ DeletePath(a, p, FALSE, TRUE)
    \/ \E a \in Remotes, p \in ReplyPaths, q \in ReplyPaths :
          BurstSpent /\ RenamePath(a, p, q, TRUE)
    \/ \E a \in Remotes, p \in ReplyPaths, q \in ReplyPaths :
          BurstSpent /\ CopyPath(a, p, q, FALSE, TRUE)
    \/ BurstSpent /\ SearchFiles("m1", RealDir, "*", 1)
    \/ \E x \in DOMAIN disk : WalkEntry("m1", "t1", x)
    \/ WalkLoad("m1", "t1")
    \/ WalkCas("m1", "t1")
    \/ WalkPush("m1", "t1")
    \/ SearchReturns("m1")

SpecReply == InitWith({HostTree(<<>>, TRUE, TRUE)}, {FileSystemConfig(FALSE)})
             /\ [][NextReply]_vars

\* The frames of the kinds a filesystem request is answered with.
FsFrames ==
    {"operation_success", "operation_error", "file_chunk", "search_results"}
IsFsFrame(f) ==
    /\ f[1] \in FsFrames
    /\ f[1] = "operation_error" => f[2] # "list_directory"

\* The positions of peer a's socket that hold a reply with request_id id.
RepliesTo(a, id) ==
    {i \in 1..Len(sock[a]) : IsFsFrame(sock[a][i]) /\ sock[a][i][Len(sock[a][i])] = id}

\* The requests of the log made by peers.
PeerRequests == {k \in 1..Len(obs.ops) : "peer" \in DOMAIN obs.ops[k]}

MaxEvents == 2

\* Path::parent of a changed path, as a protocol path.
path_parent(p) ==
    CASE p \in {"/r/p/f", "/r/p/d"} -> "/r/p"
      [] p = "/r/p/d/f" -> "/r/p/d"
      [] p = "/r/q/f" -> "/r/q"
      [] p \in {"/r/p", "/r/q"} -> "/r"
      [] OTHER -> "/"

\* An is_path_watched that accepts a change anywhere below a watched path.
is_path_watched_below(changed_path, watched) ==
    \/ changed_path \in watched
    \/ path_parent(changed_path) \in watched
    \/ path_parent(path_parent(changed_path)) \in watched

is_path_watched(changed_path, watched) ==
    IF changed_path \in watched THEN TRUE
    ELSE path_parent(changed_path) \in watched

\* A classification that never forgets a path.
classify_event_keeps(p, known, exists) ==
    IF p \in exists
    THEN IF p \notin known
         THEN [change_type |-> "created", known |-> known \cup {p}]
         ELSE [change_type |-> "modified", known |-> known]
    ELSE [change_type |-> "deleted", known |-> known]

\* classify_event: the change_type of an event for path p and known_paths
\* after it.
classify_event(p, known, exists) ==
    IF p \in exists
    THEN IF p \notin known
         THEN [change_type |-> "created", known |-> known \cup {p}]
         ELSE [change_type |-> "modified", known |-> known]
    ELSE [change_type |-> "deleted", known |-> known \ {p}]

\* The debouncer's callback of a watcher (NonRecursive): a change of the
\* watched directory or of an entry directly in it is classified and sent
\* on event_tx.
FileEvent(w, p) ==
    /\ w \in watchers
    /\ p \in {w} \cup Children(w)
    /\ Len(fwd.events) < MaxEvents
    /\ LET c == classify_event(p, fwd.known, fwd.exists)
       IN fwd' = [fwd EXCEPT !.events = Append(@, p), !.kinds = Append(@, c.change_type),
                             !.known = c.known]
    /\ UNCHANGED <<connVars, regVars, viewVars, watchVars, chanVars, persisted, disk, config,
                   search, rlock, obs>>

\* The handler has sent true on disconnect_tx.
Disconnected(a) == pc[a] \in {"m_unreg", "m_cleanup", "m_unwatch", "m_restore", "m_done"}

\* The handler has returned through a `?`: disconnect_tx and client_rx were
\* dropped and nothing was sent on disconnect_tx.
Dropped(a) == pc[a] = "m_failed"

\* The forwarder's frame apart from fwd, client_q and obs.
FwdFrame ==
    UNCHANGED <<connVars, regVars, viewVars, watchVars, hub, pty_pos, input_q, resize_q,
                persisted, disk, config, search, rlock>>

\* file_watch_rx.recv() yields the next change.
WatchRecv(a) ==
    /\ fwd.task[a] = "recv"
    /\ ~Disconnected(a)
    /\ fwd.pos[a] < Len(fwd.events)
    /\ fwd' = [fwd EXCEPT !.pos[a] = @ + 1, !.task[a] = "route",
                          !.change[a] = fwd.events[fwd.pos[a] + 1]]
    /\ UNCHANGED <<client_q, obs>>
    /\ FwdFrame

\* The read-locked block: the peer is gone (break), has no subscription or
\* does not watch the changed path (continue), or the change goes on.
WatchRoute(a) ==
    /\ fwd.task[a] = "route"
    /\ fwd' = [fwd EXCEPT !.task[a] =
                  IF a \notin mobile_clients THEN "done"
                  ELSE IF a \notin DOMAIN file_watch_subscriptions THEN "recv"
                  ELSE IF ~is_path_watched(fwd.change[a], file_watch_subscriptions[a])
                       THEN "recv"
                  ELSE "send"]
    /\ obs' = [obs EXCEPT !.routed =
                  Append(@, [peer |-> a, path |-> fwd.change[a],
                             watched |-> Get(file_watch_subscriptions, a, {})])]
    /\ UNCHANGED client_q
    /\ FwdFrame

\* get_file_info, the check of disconnect_rx and watch_tx.send(FileChanged);
\* a send to a queue whose receiver was dropped ends the task.
WatchSend(a) ==
    /\ fwd.task[a] = "send"
    /\ IF Disconnected(a) \/ Dropped(a)
       THEN /\ fwd' = [fwd EXCEPT !.task[a] = "done"]
            /\ UNCHANGED client_q
       ELSE /\ fwd' = [fwd EXCEPT !.task[a] = "recv"]
            /\ client_q' = [client_q EXCEPT ![a] =
                               Append(@, <<"file_changed", fwd.change[a]>>)]
    /\ UNCHANGED obs
    /\ FwdFrame

\* disconnect_rx.changed() with the value true: break.
WatchStop(a) ==
    /\ fwd.task[a] = "recv"
    /\ Disconnected(a)
    /\ fwd' = [fwd EXCEPT !.task[a] = "done"]
    /\ UNCHANGED <<client_q, obs>>
    /\ FwdFrame

\* disconnect_rx.changed() on a channel whose sender was dropped: it
\* returns Err at once, and the value it holds is still false.
WatchClosed(a) ==
    /\ fwd.task[a] = "recv"
    /\ Dropped(a)
    /\ fwd' = [fwd EXCEPT !.task[a] = "closed"]
    /\ UNCHANGED <<client_q, obs>>
    /\ FwdFrame

\* `continue 'watch` after changed() returned with the value false.
WatchContinue(a) ==
    /\ fwd.task[a] = "closed"
    /\ fwd' = [fwd EXCEPT !.task[a] = "recv"]
    /\ UNCHANGED <<client_q, obs>>
    /\ FwdFrame

\* Two peers watch and unwatch directories while the watchers report
\* changes; m2 may leave.
NextForward ==
    \/ \E a \in Remotes : handle_connection(a, <<"hello", "match">>)
    \/ \E a \in Remotes : MobileEntry(a)
    \/ \E a \in Remotes : SendWelcome(a, TRUE)
    \/ loc["m1"].nreq = 0 /\ WatchDirectory("m1", "/r/p", RateBurst, "ok", TRUE)
    \/ loc["m2"].nreq = 0 /\ WatchDirectory("m2", "/r/p/d", RateBurst, "ok", TRUE)
    \/ \E a \in Remotes : WatchDirectoryLock(a)
    \/ \E a \in Remotes : WatchDirectoryOs(a, TRUE, TRUE)
    \/ UnwatchDirectory("m1", "/r/p", RateBurst, "ok", TRUE)
    \/ UnwatchDirectoryLock("m1")
    \/ UnwatchDirectoryOs("m1", TRUE)
    \/ \E w \in WatchDirs, p \in {"/r/p/f", "/r/p/d", "/r/p/d/f"} : FileEvent(w, p)
    \/ \E a \in Remotes : WatchRecv(a)
    \/ \E a \in Remotes : WatchRoute(a)
    \/ \E a \in Remotes : WatchSend(a)
    \/ \E a \in Remotes : WatchStop(a)
    \/ \E a \in Remotes : Queued(a, TRUE)
    \/ MobileClose("m2")
    \/ MobileUnregister("m2")
    \/ cleanup_client_state("m2")
    \/ CleanupUnwatch("m2")

SpecForward == Init /\ [][NextForward]_vars

\* The latest routing decision of peer a's forwarder.
LastRouted(a) ==
    LET ks == {k \in 1..Len(obs.routed) : obs.routed[k].peer = a}
    IN obs.routed[CHOOSE k \in ks : \A j \in ks : j <= k]

\* C25: whenever a FileChanged frame is queued for a peer, the peer's
\* watched-path set held, when the forwarder routed the change, the changed
\* path itself or its direct parent; so a change below a directory that
\* only other peers watch, or more than one level below a watched
\* directory, is never queued for it.
FileChangedOnlyToWatchers ==
    [][\A a \in Remotes :
          (Len(client_q'[a]) = Len(client_q[a]) + 1
           /\ client_q'[a][Len(client_q'[a])][1] = "file_changed") =>
             LET p == client_q'[a][Len(client_q'[a])][2]
                 r == LastRouted(a)
             IN /\ r.path = p
                /\ p \in r.watched \/ path_parent(p) \in r.watched]_vars

\* C25 witness: m1 watches /r/p and m2 watches /r/p/d; a change of
\* /r/p/d/f reached m2's socket and was routed, and dropped, by m1.
DeepChangeOnlyToItsWatcher ==
    /\ <<"file_changed", "/r/p/d/f">> \in {sock["m2"][i] : i \in 1..Len(sock["m2"])}
    /\ \E k \in 1..Len(obs.routed) :
          obs.routed[k] = [peer |-> "m1", path |-> "/r/p/d/f", watched |-> {"/r/p"}]
    /\ fwd.task["m1"] = "recv"
    /\ client_q["m1"] = <<>>

(* ------------------------------------------------------------------ *)
(* PTY fan-out and subscriptions                                       *)
(* ------------------------------------------------------------------ *)

\* Nobody but the wrapper of S2 has connected yet.
Quiet == \A a \in Addrs \ {"lo2"} : pc[a] = "new"

\* Fan-out: the wrapper of S2 registers first and sends one chunk at any
\* time, the wrapper of S1 sends output; m1 subscribes to and unsubscribes
\* from S1, m2 never subscribes; both receive.
NextFanout ==
    \/ \E a \in Remotes : handle_connection(a, <<"hello", "match">>)
    \/ handle_connection("lo1", <<"register_pty", "S1">>)
    \/ \E a \in Remotes : MobileEntry(a)
    \/ \E a \in Remotes : SendWelcome(a, TRUE)
    \/ WrapperEntry("lo1")
    \/ PtyOutput("lo1", <<"a">>, 0, NoWait)
    \/ AppendScrollback("lo1")
    \/ Quiet /\ handle_connection("lo2", <<"register_pty", "S2">>)
    \/ Quiet /\ WrapperEntry("lo2")
    \/ loc["lo2"].nout = 0 /\ PtyOutput("lo2", <<"b">>, 0, NoWait)
    \/ AppendScrollback("lo2")
    \/ \E a \in Remotes : PtyRecv(a, TRUE)
    \/ Subscribe("m1", "S1")
    \/ Unsubscribe("m1", "S1")
    \/ UnsubscribeRestore("m1")

SpecFanout == Init /\ [][NextFanout]_vars

\* The step is a's pty_rx.recv() returning a chunk.
TakesChunk(a) ==
    /\ pc[a] = "m_loop"
    /\ pty_pos'[a] # pty_pos[a]
    /\ Len(hub) - pty_pos[a] <= BroadcastCap

\* C26: a peer that takes a chunk from the hub without having lagged writes
\* it to its socket as PtyBytes with the chunk's session and bytes, whatever
\* its views are; and a step that changes a peer's views or a view count
\* leaves every socket, every hub cursor and the hub as they were.
PtyBytesIgnoreViews ==
    /\ [][\A a \in Remotes :
             TakesChunk(a) =>
                /\ pty_pos'[a] = pty_pos[a] + 1
                /\ sock'[a] = Append(sock[a], <<"pty_bytes", hub[pty_pos[a] + 1][1],
                                               hub[pty_pos[a] + 1][2]>>)]_vars
    /\ [][(mobile_views' # mobile_views \/ session_view_counts' # session_view_counts) =>
             (sock' = sock /\ pty_pos' = pty_pos /\ hub' = hub)]_vars

\* C26 witness: m2, which never subscribed, has received chunks of S1 and
\* of S2, and m1 has received a chunk of S1 after unsubscribing from it.
UnsubscribedPeersReceive ==
    /\ "m2" \notin DOMAIN mobile_views
    /\ PtyBytesTo(sock["m2"], "S1") # <<>>
    /\ PtyBytesTo(sock["m2"], "S2") # <<>>
    /\ loc["m1"].req = <<"unsubscribe", "S1">>
    /\ Get(mobile_views, "m1", {}) = {}
    /\ sock["m1"] # <<>>
    /\ sock["m1"][Len(sock["m1"])][1] = "pty_bytes"
    /\ sock["m1"][Len(sock["m1"])][2] = "S1"

(* ------------------------------------------------------------------ *)
(* Frames that are no ClientMessage                                    *)
(* ------------------------------------------------------------------ *)

\* Peer m1 sends frames that do not parse, as its first frame or later,
\* among subscriptions, pings and a watch, while the wrapper of S1 registers.
NextUnparsed ==
    \/ \E frame \in {<<"hello", "match">>, <<"garbage">>} : handle_connection("m1", frame)
    \/ handle_connection("lo1", <<"register_pty", "S1">>)
    \/ MobileEntry("m1")
    \/ SendWelcome("m1", TRUE)
    \/ WrapperEntry("lo1")
    \/ \E frame \in {<<"garbage">>, <<"nontext">>} : UnparsedFrame("m1", frame)
    \/ Subscribe("m1", "S1")
    \/ Ping("m1", TRUE)
    \/ WatchDirectory("m1", "/r/p", RateBurst, "ok", TRUE)
    \/ WatchDirectoryLock("m1")
    \/ WatchDirectoryOs("m1", TRUE, TRUE)
    \/ Queued("m1", TRUE)

SpecUnparsed == Init /\ [][NextUnparsed]_vars

\* The step is a's handler taking a frame that is no ClientMessage: as the
\* first frame after the welcome sequence, or in the loop.
DropsFrame(a) ==
    \/ pc[a] = "m_first" /\ first[a][1] = "garbage" /\ pc'[a] # "m_first"
    \/ /\ pc[a] = "m_loop"
       /\ loc'[a].nreq = loc[a].nreq + 1
       /\ loc'[a].req[1] \in {"garbage", "nontext"}

\* C27: taking a frame that is no ClientMessage writes nothing to any
\* socket or queue, leaves sessions, peers, push tokens, views, view
\* counts, watch subscriptions and counts, rate limiters, watchers and the
\* persisted sessions as they were, and leaves the peer in its loop.
UnparsedFrameIsDropped ==
    [][\A a \in Remotes :
          DropsFrame(a) =>
             /\ pc'[a] = "m_loop"
             /\ UNCHANGED <<sock, regVars, viewVars, watchVars, chanVars, persisted,
                            diskVars, rlock>>]_vars

\* C27 witness: after a first frame and a later frame that did not parse,
\* m1 subscribed to S1 and its ping was answered.
ServedAfterUnparsed ==
    /\ first["m1"] = <<"garbage">>
    /\ loc["m1"].nreq = 3
    /\ loc["m1"].req = <<"ping">>
    /\ sock["m1"][Len(sock["m1"])] = <<"pong">>
    /\ Get(mobile_views, "m1", {}) = {"S1"}
    /\ Len(sock["m1"]) = 3

(* ------------------------------------------------------------------ *)
(* The state lock and socket writes                                    *)
(* ------------------------------------------------------------------ *)

\* Peer m1 goes through its welcome sequence and asks for the session list
\* while the wrapper of S1 registers, produces output and enters the waiting
\* state; peer m2 connects once S1 waits and is sent the waiting state.  A socket write that has not
\* happened yet is a write that is still pending: a slow peer.
NextLock ==
    \/ handle_connection("m1", <<"hello", "match">>)
    \/ WaitingSessions # {} /\ handle_connection("m2", <<"hello", "match">>)
    \/ handle_connection("lo1", <<"register_pty", "S1">>)
    \/ \E a \in Remotes : MobileEntry(a)
    \/ \E a \in Remotes : SendWelcome(a, TRUE)
    \/ \E ok \in BOOLEAN : WaitingStatesSend("m2", "S1", ok)
    \/ GetSessions("m1")
    \/ WrapperEntry("lo1")
    \/ PtyOutput("lo1", <<"a">>, 0, NoWait)
    \/ \E ev \in WaitEvents : PtyOutput("lo1", <<"a">>, ClearThreshold, ev)
    \/ AppendScrollback("lo1")
    \/ UpdateTracker("lo1", "keep")
    \/ StoreWaiting("lo1")
    \/ BroadcastWaiting("lo1")
    \/ SpawnPush("lo1")
    \/ Queued("m1", TRUE)

SpecLock == Init /\ [][NextLock]_vars

\* Positions of a PTY handler at which its next step takes the write side
\* of the state lock.
TakesWriteLock == {"w_scroll", "w_track"}

\* Positions of a mobile handler at which it holds the read side of the
\* state lock and its next step is a write to its own socket.
WritesSocketLocked == {"m_sessions_send", "m_getsessions_send", "m_waiting_send"}

\* C28: a PTY handler that has broadcast a chunk and is about to append it
\* to scrollback, or to update the tracker, finds the state lock free of
\* any mobile handler that is in the middle of a socket write.
PtyHandlerNeverWaitsForSocket ==
    \A w \in Loopbacks :
       pc[w] \in TakesWriteLock =>
          ~ \E a \in rlock : pc[a] \in WritesSocketLocked

\* C29: no task is at a socket write while it holds the state lock.
NoSocketWriteUnderLock ==
    \A a \in Addrs : pc[a] \in WritesSocketLocked => a \notin rlock

(* ------------------------------------------------------------------ *)
(* Calls of FileWatcher::watch and FileWatcher::unwatch                *)
(* ------------------------------------------------------------------ *)

\* The step is a's handler deciding to call FileWatcher::watch /
\* FileWatcher::unwatch for the paths of loc'[a].paths.
CallsWatch(a) == pc[a] # "m_watch_os" /\ pc'[a] = "m_watch_os"
CallsUnwatch(a) ==
    \/ pc[a] # "m_unwatch_os" /\ pc'[a] = "m_unwatch_os"
    \/ pc[a] = "m_cleanup" /\ pc'[a] = "m_unwatch" /\ loc'[a].paths # {}

\* C30: a handler goes on to call FileWatcher::watch(p) only from the
\* locked block of a WatchDirectory request that moves p's count from 0 to
\* 1, and on to FileWatcher::unwatch(p) only from the locked block of an
\* UnwatchDirectory request, or of the disconnect cleanup, that moves p's
\* count from 1 to 0; the set of watchers changes in no other step than
\* these calls; and the locked block of a WatchDirectory for a path the
\* peer already holds leaves the counts alone and goes straight to the
\* reply, which leaves the watchers alone.
WatchCallsFollowCounts ==
    [][/\ \A a \in Remotes :
            /\ CallsWatch(a) =>
                  /\ pc[a] = "m_watch_lock" /\ loc[a].req[1] = "watch_directory"
                  /\ \A p \in loc'[a].paths :
                        Get(file_watch_counts, p, 0) = 0 /\ Get(file_watch_counts', p, 0) = 1
            /\ CallsUnwatch(a) =>
                  /\ \/ pc[a] = "m_unwatch_lock" /\ loc[a].req[1] = "unwatch_directory"
                     \/ pc[a] = "m_cleanup"
                  /\ \A p \in loc'[a].paths :
                        Get(file_watch_counts, p, 0) = 1 /\ Get(file_watch_counts', p, 0) = 0
            /\ ( /\ pc[a] = "m_watch_lock" /\ pc'[a] # "m_watch_lock"
                 /\ loc[a].paths \subseteq Get(file_watch_subscriptions, a, {}) ) =>
                  /\ file_watch_counts' = file_watch_counts
                  /\ file_watch_subscriptions' = file_watch_subscriptions
                  /\ pc'[a] = "m_watch_reply"
            /\ (pc[a] \in {"m_watch_reply", "m_unwatch_reply"} /\ pc'[a] # pc[a]) =>
                  watchers' = watchers
       /\ watchers' # watchers =>
             \E a \in Remotes :
                \/ pc[a] = "m_watch_os" /\ watchers' = watchers \cup loc[a].paths
                \/ pc[a] \in {"m_unwatch_os", "m_unwatch"} /\ watchers' = watchers \ loc[a].paths
      ]_vars

\* C30 witness: m1, alone, watches /r/p and asks again; its second request
\* is at the reply, the count is 1 and the one watcher is in place.
WatchRepeatedOnce ==
    /\ pc["m2"] = "new"
    /\ pc["m1"] = "m_watch_reply"
    /\ loc["m1"].nreq = 2
    /\ Get(file_watch_counts, "/r/p", 0) = 1
    /\ Get(file_watch_subscriptions, "m1", {}) = {"/r/p"}
    /\ watchers = {"/r/p"}

(* ------------------------------------------------------------------ *)
(* Notices of a stored waiting state                                   *)
(* ------------------------------------------------------------------ *)

\* C31 (as claimed): every stored waiting state is announced by one
\* WaitingForInput broadcast and one push, and nothing else is: the
\* broadcasts for a session are as many as its pushes plus the handlers
\* that have broadcast and are about to push, and broadcasts and pending
\* notices together are as many as the stored waiting states.
StoredWaitingIsAnnounced ==
    \A s \in SessionIds :
        /\ obs.nwfi[s] = obs.npush[s] + Notifying(s, {"w_push"})
        /\ obs.nwfi[s] + Notifying(s, {"w_wfi"}) = Runs(obs.evlog[s], <<>>, TRUE)

(* ------------------------------------------------------------------ *)
(* Clearing the waiting state on output                                *)
(* ------------------------------------------------------------------ *)

\* Normalised texts around the threshold: without whitespace, with
\* whitespace inside, and with whitespace at the ends.
Spaced(n) == <<"x">> \o [i \in 1..(n - 2) |-> " "] \o <<"x">>
Padded(n) == <<" ">> \o Xs(n) \o <<" ">>
Texts ==
    {Xs(ClearThreshold - 1), Xs(ClearThreshold),
     Spaced(ClearThreshold - 1), Spaced(ClearThreshold),
     Padded(ClearThreshold - 2), Padded(ClearThreshold), <<" ">>}

\* The wrapper of S1 sends a chunk that the detector takes for a prompt and
\* then chunks it takes for none, while peer m1 is connected.
NextClear ==
    \/ handle_connection("m1", <<"hello", "match">>)
    \/ pc["m1"] = "m_loop" /\ handle_connection("lo1", <<"register_pty", "S1">>)
    \/ MobileEntry("m1")
    \/ SendWelcome("m1", TRUE)
    \/ WrapperEntry("lo1")
    \/ \E ev \in {e \in WaitEvents : e.prompt_hash = 1} :
          PtyOutputText("lo1", <<"a">>, Xs(ClearThreshold), ev)
    \/ \E text \in Texts : PtyOutputText("lo1", <<"a">>, text, NoWait)
    \/ AppendScrollback("lo1")
    \/ UpdateTracker("lo1", "keep")
    \/ StoreWaiting("lo1")
    \/ BroadcastWaiting("lo1")
    \/ SpawnPush("lo1")
    \/ ClearOnOutput("lo1")
    \/ BroadcastCleared("lo1")
    \/ Queued("m1", TRUE)

SpecClear == Init /\ [][NextClear]_vars

\* The step is w's should_clear block for a session that is waiting.
DecidesClear(w) ==
    /\ pc[w] = "w_clear" /\ pc'[w] # "w_clear"
    /\ loc[w].sid \in DOMAIN sessions
    /\ sessions[loc[w].sid].waiting # NoWait

\* With `enough` deciding, the should_clear block clears the waiting state
\* and goes on to the WaitingCleared broadcast, which reaches every
\* registered peer, and otherwise keeps the state and broadcasts nothing.
ClearsWhen(w, enough) ==
    /\ DecidesClear(w) =>
          IF enough
          THEN /\ sessions'[loc[w].sid].waiting = NoWait
               /\ pc'[w] = "w_cleared"
          ELSE /\ sessions' = sessions
               /\ pc'[w] = "w_loop"
    /\ (pc[w] = "w_cleared" /\ pc'[w] # "w_cleared") =>
          client_q' = QueueToAll(client_q, <<"waiting_cleared", loc[w].sid>>)
    /\ (pc[w] = "w_clear" /\ pc'[w] # "w_clear") => client_q' = client_q

HandlerStep(a) ==
    \/ handle_connection(a, <<"hello", "match">>)
    \/ MobileEntry(a)
    \/ \E ok \in BOOLEAN : SendWelcome(a, ok)
    \/ \E ok \in BOOLEAN : WatchDirectory(a, "/r/p", RateBurst, "ok", ok)
    \/ WatchDirectoryLock(a)
    \/ \E ok \in BOOLEAN : WatchDirectoryOs(a, TRUE, ok)
    \/ MobileClose(a)
    \/ MobileUnregister(a)
    \/ cleanup_client_state(a)
    \/ CleanupUnwatch(a)
    \/ Queued(a, TRUE)

\* The steps of a's forwarder task.
ForwarderStep(a) ==
    \/ WatchRecv(a)
    \/ WatchRoute(a)
    \/ WatchSend(a)
    \/ WatchStop(a)
    \/ WatchClosed(a)
    \/ WatchContinue(a)

NextForwarder ==
    \/ HandlerStep("m1")
    \/ ForwarderStep("m1")
    \/ \E w \in WatchDirs, p \in {"/r/p/f", "/r/p/d/f"} : FileEvent(w, p)

\* The runtime schedules every task that can run: the handler and the
\* forwarder of m1 take a step whenever they have one.
SpecForwarder ==
    /\ Init
    /\ [][NextForwarder]_vars
    /\ WF_vars(HandlerStep("m1"))
    /\ WF_vars(ForwarderStep("m1"))

\* C33 (as claimed): once the handler of a mobile peer has returned, by the
\* end of its loop or with an error, its forwarder task ends.
ForwarderEndsWithHandler ==
    \A a \in Remotes : (pc[a] \in {"m_done", "m_failed"}) ~> (fwd.task[a] = "done")

(* ------------------------------------------------------------------ *)
(* The classification of watcher events                                *)
(* ------------------------------------------------------------------ *)

\* An entry of a watched directory is created, or removed, on the live
\* filesystem.
EntryCreated(p) ==
    /\ p \notin fwd.exists
    /\ fwd' = [fwd EXCEPT !.exists = @ \cup {p}]
    /\ UNCHANGED <<connVars, regVars, viewVars, watchVars, chanVars, persisted, disk, config,
                   search, rlock, obs>>

EntryRemoved(p) ==
    /\ p \in fwd.exists
    /\ fwd' = [fwd EXCEPT !.exists = @ \ {p}]
    /\ UNCHANGED <<connVars, regVars, viewVars, watchVars, chanVars, persisted, disk, config,
                   search, rlock, obs>>

\* Peer m1 watches and unwatches /r/p while the entry /r/p/f comes and
\* goes and the watcher reports events for it and for /r/p/d.
NextClassify ==
    \/ handle_connection("m1", <<"hello", "match">>)
    \/ MobileEntry("m1")
    \/ SendWelcome("m1", TRUE)
    \/ WatchDirectory("m1", "/r/p", RateBurst, "ok", TRUE)
    \/ WatchDirectoryLock("m1")
    \/ WatchDirectoryOs("m1", TRUE, TRUE)
    \/ UnwatchDirectory("m1", "/r/p", RateBurst, "ok", TRUE)
    \/ UnwatchDirectoryLock("m1")
    \/ UnwatchDirectoryOs("m1", TRUE)
    \/ EntryCreated("/r/p/f")
    \/ EntryRemoved("/r/p/f")
    \/ \E p \in {"/r/p/f", "/r/p/d"} : FileEvent("/r/p", p)

SpecClassify == Init /\ [][NextClassify]_vars

\* C34: an event for a path that exists and is not known is Created and
\* makes it known; one for a path that exists and is known is Modified; one
\* for a path that does not exist is Deleted and makes it unknown; and when
\* a watcher is created for a directory, the directory and the entries
\* then present in it are known.
ClassifiesByKnownPaths ==
    [][/\ Len(fwd'.events) = Len(fwd.events) + 1 =>
             LET p == fwd'.events[Len(fwd'.events)]
                 kind == fwd'.kinds[Len(fwd'.kinds)]
             IN /\ (p \in fwd.exists /\ p \notin fwd.known) =>
                       kind = "created" /\ fwd'.known = fwd.known \cup {p}
                /\ (p \in fwd.exists /\ p \in fwd.known) =>
                       kind = "modified" /\ fwd'.known = fwd.known
                /\ p \notin fwd.exists =>
                       kind = "deleted" /\ fwd'.known = fwd.known \ {p}
       /\ \A w \in WatchDirs :
             (w \notin watchers /\ w \in watchers') =>
                ({w} \cup (Children(w) \cap fwd.exists)) \subseteq fwd'.known
      ]_vars

\* C34 witness: /r/p/f, present when the watch started, was reported
\* Deleted after its removal and Created after it came back.
DeletedThenCreated ==
    /\ fwd.events = <<"/r/p/f", "/r/p/f">>
    /\ fwd.kinds = <<"deleted", "created">>
    /\ "/r/p/f" \in fwd.known

(* ------------------------------------------------------------------ *)
(* Watchers and watch counts                                           *)
(* ------------------------------------------------------------------ *)

\* Positions of a mobile handler between the locked block of a watch
\* request, or of the cleanup, and the call of the FileWatcher it decided.
InFlight == {"m_watch_lock", "m_watch_os", "m_watch_reply", "m_unwatch_lock",
             "m_unwatch_os", "m_unwatch_reply", "m_unreg", "m_cleanup", "m_unwatch"}

\* C35 (as claimed): when no watch request or cleanup is in flight, a path
\* has a watcher exactly if its watch count is positive.
WatcherIffCounted ==
    (\A a \in Remotes : pc[a] \notin InFlight) =>
        \A p \in WatchDirs : p \in watchers <=> Get(file_watch_counts, p, 0) > 0

(* ------------------------------------------------------------------ *)
(* Two wrappers with one session id                                    *)
(* ------------------------------------------------------------------ *)

\* C36 (as claimed): the teardown of a wrapper whose session id is held in
\* the registry by another wrapper that is still connected leaves that
\* session in the registry, routed to its owner, and queues no
\* SessionEnded for it.
TeardownSparesOthersSession ==
    [][\A w \in Loopbacks :
          LET s == loc[w].sid
          IN ( /\ pc[w] = "w_unreg" /\ pc'[w] # "w_unreg"
               /\ s \in DOMAIN sessions
               /\ sessions[s].owner # w
               /\ pc[sessions[s].owner] \in WrapperLive \ {"w_unreg", "w_end_bcast",
                                                          "w_end_persist"} ) =>
                /\ s \in DOMAIN sessions'
                /\ sessions'[s].owner = sessions[s].owner
                /\ client_q' = client_q]_vars

(* ------------------------------------------------------------------ *)
(* The approval model of the cleared waiting state                     *)
(* ------------------------------------------------------------------ *)

\* C37 (as claimed): the bytes the second block of a ToolApproval sends to
\* the input sink are the mapping, for the response, of the approval model
\* of the waiting state that this block clears.
ApprovalMapsClearedState ==
    [][\A a \in Remotes :
          LET s == loc[a].sid
          IN ( /\ pc[a] = "m_approve" /\ pc'[a] # "m_approve"
               /\ s \in DOMAIN sessions
               /\ sessions[s].waiting # NoWait ) =>
                loc[a].chunk[1] =
                    approval_input_for(sessions[s].waiting.approval_model, loc[a].req[3])]_vars

(* ------------------------------------------------------------------ *)
(* The destination during write_file                                   *)
(* ------------------------------------------------------------------ *)

\* Positions inside write_file after the checks.
Writing == {"wf_temp", "wf_backup", "wf_rename", "wf_restore", "wf_rmtemp", "wf_rmbak"}

\* C38 (as claimed): while write_file replaces a file that existed when the
\* call started, the destination is at every step a file holding the prior
\* content or the new content.
DestinationAlwaysComplete ==
    \A a \in Remotes :
        LET path == loc[a].req.path
        IN (pc[a] \in Writing /\ IsFile(obs.pre.pre, path)) =>
              /\ IsFile(disk, path)
              /\ disk[path].data \in {obs.pre.pre[path].data, loc[a].req.bytes}

(* ------------------------------------------------------------------ *)
(* A WatchDirectory whose OS watcher cannot be created                 *)
(* ------------------------------------------------------------------ *)

\* Two peers ask to watch /r/p, again and again; the creation of the OS
\* watcher may fail.
NextWatchFail ==
    \/ \E a \in Remotes : handle_connection(a, <<"hello", "match">>)
    \/ \E a \in Remotes : MobileEntry(a)
    \/ \E a \in Remotes : SendWelcome(a, TRUE)
    \/ \E a \in Remotes : WatchDirectory(a, "/r/p", RateBurst, "ok", TRUE)
    \/ \E a \in Remotes : WatchDirectoryLock(a)
    \/ \E a \in Remotes, os_ok \in BOOLEAN : WatchDirectoryOs(a, os_ok, TRUE)

SpecWatchFail == Init /\ [][NextWatchFail]_vars

\* The step is the reply of a's WatchDirectory with operation_error after
\* FileWatcher::watch failed.
WatchFails(a) ==
    /\ pc[a] = "m_watch_os" /\ pc'[a] # "m_watch_os"
    /\ sock'[a][Len(sock'[a])][1] = "operation_error"

\* C39 (as claimed): when the request is answered with operation_error
\* because FileWatcher::watch failed, the path is not in the peer's
\* watched-path set and its watch count is what it was before the request
\* (0, as only a first watcher reaches the call).
FailedWatchLeavesNoTrace ==
    [][\A a \in Remotes :
          WatchFails(a) =>
             \A p \in loc[a].paths :
                /\ p \notin Get(file_watch_subscriptions', a, {})
                /\ Get(file_watch_counts', p, 0) = 0]_vars

(* ------------------------------------------------------------------ *)
(* Scrollback and the broadcast stream                                 *)
(* ------------------------------------------------------------------ *)

\* The bytes sent on the PTY broadcast hub for session s, in order.
RECURSIVE HubStream(_, _)
HubStream(h, s) ==
    IF h = <<>> THEN <<>>
    ELSE (IF Head(h)[1] = s THEN Head(h)[2] ELSE <<>>) \o HubStream(Tail(h), s)

\* C40 (as claimed): whenever no handler of the session is between the
\* broadcast of a chunk and its append, the session's scrollback is the
\* tail of the byte stream sent on the hub for it.
ScrollbackIsHubTail ==
    \A s \in DOMAIN sessions :
        (\A w \in Loopbacks : loc[w].sid = s => pc[w] # "w_scroll") =>
            sessions[s].scrollback = LastN(HubStream(hub, s), ScrollbackMax)

====
